---- MODULE Spec2Model ----
(***************************************************************************)
(* Model of the versioned, path-compressed trie of                         *)
(* smart-contracts/wasm-chain-integration/src/v1/trie/low_level.rs.        *)
(*                                                                         *)
(* Rust indices are 0-based; sequences here are 1-based, so element i of a *)
(* Vec is At(vec, i).  Option<usize> is modelled by None (-1) or the index.*)
(* A Vec<u8> value, a Stem and a key are sequences of bytes.               *)
(***************************************************************************)
EXTENDS Integers, Sequences, FiniteSets, TLC

VARIABLES trie, links, store, frozen, iters, last, prev, snaps, steps, cref, handed,
          threads

vars == <<trie, links, store, frozen, iters, last, prev, snaps, steps, cref, handed,
          threads>>

(***************************************************************************)
(* Bounds of the model.                                                    *)
(***************************************************************************)
\* key bytes are 1..MaxByte
MaxByte == 2
\* keys have at most MaxKeyLen bytes
MaxKeyLen == 2
\* values are the one-byte vectors <<1>> .. <<MaxVal>>
MaxVal == 1
\* number of public calls in one behaviour
MaxSteps == 3
\* number of iterators the caller holds at once
MaxIters == 2
\* number of keys in the persistent tree a trie is thawed from
MaxInitKeys == 2

None == -1

KeyBytes == 1..MaxByte

Keys == UNION {[1..n -> KeyBytes] : n \in 0..MaxKeyLen}

Values == {<<v>> : v \in 1..MaxVal}

\* the value of every key of the persistent tree a trie is thawed from
Initial == <<0>>

\* the key sets of the persistent trees a trie is thawed from
InitKeySets == {S \in SUBSET Keys : Cardinality(S) <= MaxInitKeys}

At(vec, i) == vec[i + 1]

SetAt(vec, i, x) == [vec EXCEPT ![i + 1] = x]

Truncate(vec, n) == IF n < Len(vec) THEN SubSeq(vec, 1, n) ELSE vec

Pop(vec) == SubSeq(vec, 1, Len(vec) - 1)

LastOf(vec) == vec[Len(vec)]

IsPrefix(p, k) == Len(p) <= Len(k) /\ SubSeq(k, 1, Len(p)) = p

(***************************************************************************)
(* Stem                                                                    *)
(***************************************************************************)
\* Stem::extend: the stem, then the byte mid, then second
StemExtend(stem, mid, second) == stem \o <<mid>> \o second

(***************************************************************************)
(* follow_stem: key_iter and stem_iter are the remainders of the two       *)
(* iterators after the call.                                               *)
(***************************************************************************)
RECURSIVE follow_stem(_, _)
follow_stem(key_iter, stem_iter) ==
    IF stem_iter = <<>>
    THEN IF key_iter = <<>>
         THEN [tag |-> "Equal", key_step |-> 0, stem_step |-> 0,
               key_iter |-> <<>>, stem_iter |-> <<>>]
         ELSE [tag |-> "StemIsPrefix", key_step |-> Head(key_iter), stem_step |-> 0,
               key_iter |-> Tail(key_iter), stem_iter |-> <<>>]
    ELSE IF key_iter = <<>>
         THEN [tag |-> "KeyIsPrefix", key_step |-> 0, stem_step |-> Head(stem_iter),
               key_iter |-> <<>>, stem_iter |-> Tail(stem_iter)]
         ELSE IF Head(stem_iter) # Head(key_iter)
              THEN [tag |-> "Diff", key_step |-> Head(key_iter),
                    stem_step |-> Head(stem_iter),
                    key_iter |-> Tail(key_iter), stem_iter |-> Tail(stem_iter)]
              ELSE follow_stem(Tail(key_iter), Tail(stem_iter))

(***************************************************************************)
(* KeyIndexPair and the binary search of a child list by key byte.         *)
(* The result is [ok |-> TRUE, idx |-> position] or                        *)
(* [ok |-> FALSE, idx |-> insertion place], positions 0-based.             *)
(***************************************************************************)
KeyIndexPair(key, index) == [key |-> key, index |-> index]

RECURSIVE binary_search_from(_, _, _, _)
binary_search_from(children, key_step, lo, hi) ==
    IF lo >= hi
    THEN [ok |-> FALSE, idx |-> lo]
    ELSE LET mid == lo + ((hi - lo) \div 2)
             ck  == At(children, mid).key
         IN  IF ck = key_step THEN [ok |-> TRUE, idx |-> mid]
             ELSE IF ck < key_step
                  THEN binary_search_from(children, key_step, mid + 1, hi)
                  ELSE binary_search_from(children, key_step, lo, mid)

binary_search_by(children, key_step) ==
    binary_search_from(children, key_step, 0, Len(children))

\* a Vec::insert that puts the element at the end
insert_at_end(vec, place, x) == Append(vec, x)

\* Vec::insert and Vec::remove at a 0-based position
InsertAt(vec, place, x) ==
    SubSeq(vec, 1, place) \o <<x>> \o SubSeq(vec, place + 1, Len(vec))

RemoveAt(vec, place) ==
    SubSeq(vec, 1, place) \o SubSeq(vec, place + 2, Len(vec))

(***************************************************************************)
(* Entry, ChildrenCow, MutableNode, Checkpoint                              *)
(***************************************************************************)
ReadOnly(borrowed, entry_idx) ==
    [tag |-> "ReadOnly", borrowed |-> borrowed, entry_idx |-> entry_idx]

Mutable(entry_idx) == [tag |-> "Mutable", borrowed |-> FALSE, entry_idx |-> entry_idx]

Deleted == [tag |-> "Deleted", borrowed |-> FALSE, entry_idx |-> 0]

\* ChildrenCow::Owned: value is a sequence of KeyIndexPair
Owned(generation, value) ==
    [tag |-> "Owned", generation |-> generation, value |-> value]

\* ChildrenCow::Borrowed: value is a sequence of [key, link]
Borrowed(children) == [tag |-> "Borrowed", generation |-> 0, value |-> children]

ChildrenLen(children) == Len(children.value)

MutableNode(generation, value, path, children, locked) ==
    [generation |-> generation, value |-> value, path |-> path,
     children |-> children, locked |-> locked]

\* Default for MutableNode: what std::mem::take leaves behind
DefaultNode == MutableNode(0, None, <<>>, Owned(0, <<>>), 0)

Checkpoint(num_nodes, num_values, num_borrowed_nodes, num_entries) ==
    [num_nodes |-> num_nodes, num_values |-> num_values,
     num_borrowed_nodes |-> num_borrowed_nodes, num_entries |-> num_entries]

\* MutableTrie::empty
EmptyTrie ==
    [generation_roots |-> <<[root |-> None, cp |-> Checkpoint(0, 0, 0, 0)]>>,
     entries |-> <<>>, values |-> <<>>, borrowed_values |-> <<>>, nodes |-> <<>>]

\* the root of the current generation: generation_roots.last().0, None
\* also when there is no generation
CurrentRoot(t) ==
    IF Len(t.generation_roots) = 0 THEN None ELSE LastOf(t.generation_roots).root

SetCurrentRoot(t, root) ==
    [t EXCEPT !.generation_roots[Len(t.generation_roots)].root = root]

(***************************************************************************)
(* Bytes, big-endian integers, hashes                                      *)
(***************************************************************************)
\* width of Hash
HashLen == 32

INLINE_STEM_LENGTH == 63

RECURSIVE BigEndian(_, _)
\* n as width big-endian bytes (to_be_bytes, write_u16/u32/u64::<BigEndian>)
BigEndian(n, width) ==
    IF width = 0 THEN <<>>
    ELSE BigEndian(n \div 256, width - 1) \o <<n % 256>>

\* Every length and reference the model produces is below Huge; a decoded
\* integer of Huge or more is represented by Huge itself.
Huge == 16777216

RECURSIVE FromBigEndian(_)
\* read_u16/u32/u64::<BigEndian> of the given bytes
FromBigEndian(bytes) ==
    IF bytes = <<>> THEN 0
    ELSE LET hi == FromBigEndian(Pop(bytes))
         IN  IF hi >= Huge \div 256 THEN Huge ELSE 256 * hi + LastOf(bytes)

DigestModulus == 32749

RECURSIVE DigestFrom(_)
\* a polynomial digest of the bytes, computed by halving: [h, p] with h the
\* digest and p the weight of the length
DigestFrom(bytes) ==
    IF Len(bytes) = 0 THEN [h |-> 0, p |-> 1]
    ELSE IF Len(bytes) = 1 THEN [h |-> bytes[1] + 1, p |-> 33]
    ELSE LET m == Len(bytes) \div 2
             a == DigestFrom(SubSeq(bytes, 1, m))
             b == DigestFrom(SubSeq(bytes, m + 1, Len(bytes)))
         IN  [h |-> (a.h * b.p + b.h) % DigestModulus,
              p |-> (a.p * b.p) % DigestModulus]

\* sha2::Sha256 over the bytes fed to the hasher.  SHA-256 itself is not
\* computable here: it is replaced by a deterministic digest of the same
\* input, laid out in a hash of the same width.
Sha256(bytes) ==
    LET h == DigestFrom(<<7>> \o bytes).h
    IN  [i \in 1..HashLen |->
            IF i = 1 THEN h \div 256 ELSE IF i = 2 THEN h % 256 ELSE 0]

\* ToSHA256 for Vec<u8>: length as u64, then the bytes
HashValue(value) == Sha256(BigEndian(Len(value), 8) \o value)

(***************************************************************************)
(* CachedRef and the heap of Links.  A Link is an index into links; the    *)
(* cell behind a value link is Hashed<CachedRef<V>>, the cell behind a     *)
(* child link is CachedRef<Hashed<Node<V>>>.                               *)
(***************************************************************************)
Disk(key) == [tag |-> "Disk", key |-> key, value |-> <<>>]

Memory(value) == [tag |-> "Memory", key |-> 0, value |-> value]

Cached(key, value) == [tag |-> "Cached", key |-> key, value |-> value]

Hashed(hash, data) == [hash |-> hash, data |-> data]

\* persistent Node<V>: value is a link or None, children a sequence of
\* [key, link]
Node(value, path, children) ==
    [value |-> value, path |-> path, children |-> children]

(***************************************************************************)
(* Backing store: FlatStorable for Vec<u8> and FlatLoadable for Loader     *)
(***************************************************************************)
\* store_raw: [store, key]
store_raw(backing_store, data) ==
    [store |-> backing_store \o BigEndian(Len(data), 8) \o data,
     key |-> Len(backing_store)]

RECURSIVE AddCarry(_, _)
\* the carry out of the most significant byte when n is added to the
\* unsigned integer with the given big-endian bytes
AddCarry(bytes, n) ==
    IF bytes = <<>> THEN n
    ELSE AddCarry(Pop(bytes), (LastOf(bytes) + n) \div 256)

\* load_raw: [ok, data, err, panic].  read_u64 fails with UnexpectedEof,
\* which ? turns into LoadError::IOError, when fewer than 8 bytes follow the
\* position.  pos + 8 + len is computed in 64 bits: when it does not fit,
\* a build with overflow checks panics at the addition, and a build without
\* them wraps to an end below pos + 8 that is within the slice, so that the
\* slice expression panics; both builds panic.
load_raw(loader, location) ==
    IF location + 8 > Len(loader)
    THEN [ok |-> FALSE, data |-> <<>>, err |-> "IOError", panic |-> FALSE]
    ELSE LET pos == location
             prefix == SubSeq(loader, pos + 1, pos + 8)
             len == FromBigEndian(prefix)
             end == pos + 8 + len
         IN  IF AddCarry(prefix, pos + 8) > 0
             THEN [ok |-> FALSE, data |-> <<>>, err |-> "none", panic |-> TRUE]
             ELSE IF end <= Len(loader)
             THEN [ok |-> TRUE, data |-> SubSeq(loader, pos + 8 + 1, end),
                   err |-> "none", panic |-> FALSE]
             ELSE [ok |-> FALSE, data |-> <<>>, err |-> "OutOfBoundsRead",
                   panic |-> FALSE]

(***************************************************************************)
(* Loadable.  A source is the sequence of bytes not yet read; a reader     *)
(* returns [ok, val, source].                                              *)
(***************************************************************************)
ReadExact(source, n) ==
    IF n <= Len(source)
    THEN [ok |-> TRUE, val |-> SubSeq(source, 1, n),
          source |-> SubSeq(source, n + 1, Len(source))]
    ELSE [ok |-> FALSE, val |-> <<>>, source |-> source]

ReadUint(source, width) ==
    LET Decoded(r) == [ok |-> r.ok, val |-> FromBigEndian(r.val), source |-> r.source]
    IN  Decoded(ReadExact(source, width))

RECURSIVE LoadBranches(_, _, _, _)
\* the loop of Node::load over the branches: every branch is a key byte and
\* a CachedRef loaded as Disk{key}, behind a new Link.
\* Returns [ok, branches, links, source].
LoadBranches(source, n, branches, lnk) ==
    IF n = 0
    THEN [ok |-> TRUE, branches |-> branches, links |-> lnk, source |-> source]
    ELSE LET WithReference(key, reference) ==
                 IF ~key.ok \/ ~reference.ok
                 THEN [ok |-> FALSE, branches |-> branches, links |-> lnk,
                       source |-> source]
                 ELSE LoadBranches(reference.source, n - 1,
                          Append(branches, [key |-> key.val, link |-> Len(lnk)]),
                          Append(lnk, Disk(reference.val)))
             WithKey(key) == WithReference(key, ReadUint(key.source, 8))
         IN  WithKey(ReadUint(source, 1))

\* Loadable for Node<V>: [ok, node, links, source]
NodeLoad(lnk, source) ==
    LET failed == [ok |-> FALSE, node |-> Node(None, <<>>, <<>>), links |-> lnk,
                   source |-> source]
        \* the branches, read last
        WithBranches(value, path, b) ==
            IF ~b.ok THEN failed
            ELSE [ok |-> TRUE, node |-> Node(value, path.val, b.branches),
                  links |-> b.links, source |-> b.source]
        WithNumBranches(value, path, lnk1, num_branches) ==
            IF ~num_branches.ok THEN failed
            ELSE WithBranches(value, path,
                     LoadBranches(num_branches.source, num_branches.val, <<>>, lnk1))
        \* Hashed<CachedRef<V>>::load: the hash, then the reference
        WithValue(path, vhash, vref) ==
            IF ~vhash.ok \/ ~vref.ok THEN failed
            ELSE WithNumBranches(Len(lnk), path,
                     Append(lnk, Hashed(vhash.val, Disk(vref.val))),
                     ReadUint(vref.source, 2))
        WithValueHash(path, vhash) == WithValue(path, vhash, ReadUint(vhash.source, 8))
        WithPath(has_value, path) ==
            IF ~path.ok THEN failed
            ELSE IF has_value
                 THEN WithValueHash(path, ReadExact(path.source, HashLen))
                 ELSE WithNumBranches(None, path, lnk, ReadUint(path.source, 2))
        WithLength(tag, len32) ==
            IF ~len32.ok THEN failed
            ELSE WithPath((tag.val \div 64) % 2 = 1, ReadExact(len32.source, len32.val))
        WithTag(tag) ==
            IF ~tag.ok THEN failed
            ELSE IF tag.val >= 128
                 THEN WithLength(tag, ReadUint(tag.source, 4))
                 ELSE WithPath((tag.val \div 64) % 2 = 1,
                               ReadExact(tag.source, tag.val % 64))
    IN  WithTag(ReadUint(source, 1))

\* Loadable for Hashed<Node<V>>: the hash, then the node
HashedNodeLoad(lnk, source) ==
    LET WithNode(hash, n) ==
            [ok |-> hash.ok /\ n.ok, node |-> Hashed(hash.val, n.node),
             links |-> n.links, source |-> n.source]
        WithHash(hash) == WithNode(hash, NodeLoad(lnk, hash.source))
    IN  WithHash(ReadExact(source, HashLen))

(***************************************************************************)
(* Thawing.  The functions below work on a record w with the fields of     *)
(* MutableTrie, the heap links and the flag panic (an expect, unwrap or    *)
(* index check failed).                                                    *)
(***************************************************************************)
World(t, lnk) ==
    [generation_roots |-> t.generation_roots, entries |-> t.entries,
     values |-> t.values, borrowed_values |-> t.borrowed_values,
     nodes |-> t.nodes, links |-> lnk, panic |-> FALSE, collector |-> <<>>]

TrieOf(w) ==
    [generation_roots |-> w.generation_roots, entries |-> w.entries,
     values |-> w.values, borrowed_values |-> w.borrowed_values,
     nodes |-> w.nodes]

\* a migrate that copies no entry: the node of the new generation refers to
\* the entry of the old one
migrate_sharing_entry(w, self, generation) ==
    [w |-> w,
     node |-> MutableNode(generation, self.value, self.path, self.children, 0)]

\* MutableNode::migrate: [w, node], w with the new entry pushed
migrate(w, self, generation) ==
    LET entry == At(w.entries, self.value)
        new_entry == IF entry.tag = "Mutable"
                     THEN ReadOnly(FALSE, entry.entry_idx)
                     ELSE entry
    IN  IF self.value # None
        THEN [w |-> [w EXCEPT !.entries = Append(w.entries, new_entry)],
              node |-> MutableNode(generation, Len(w.entries), self.path,
                                   self.children, 0)]
        ELSE [w |-> w,
              node |-> MutableNode(generation, None, self.path, self.children, 0)]

\* Node::thaw: [w, node]
NodeThaw(w, self, generation) ==
    IF self.value # None
    THEN [w |-> [w EXCEPT
                   !.borrowed_values = Append(w.borrowed_values, self.value),
                   !.entries = Append(w.entries,
                                      ReadOnly(TRUE, Len(w.borrowed_values)))],
          node |-> MutableNode(generation, Len(w.entries), self.path,
                               Borrowed(self.children), 0)]
    ELSE [w |-> w,
          node |-> MutableNode(generation, None, self.path,
                               Borrowed(self.children), 0)]

\* CachedRef<Hashed<Node<V>>>::thaw of the cell behind link: [w, node]
thaw(w, link, generation, loader) ==
    LET self == At(w.links, link)
        failed == \* expect("Failed to read.")
                  [w |-> [w EXCEPT !.panic = TRUE], node |-> DefaultNode]
        Loaded(loaded) ==
            IF loaded.ok
            THEN NodeThaw([w EXCEPT !.links = loaded.links], loaded.node, generation)
            ELSE failed
        \* Node::<V>::load_from_location
        Raw(raw) == IF raw.ok THEN Loaded(NodeLoad(w.links, raw.data)) ELSE failed
    IN  IF self.tag = "Disk"
        THEN Raw(load_raw(loader, self.key))
        ELSE NodeThaw(w, self.value.data, generation)

RECURSIVE ThawChildren(_, _, _, _, _)
\* the map over the borrowed children in make_owned: [w, new_nodes, c]
ThawChildren(w, children, generation, loader, acc) ==
    IF children = <<>>
    THEN [w |-> w, new_nodes |-> acc.new_nodes, c |-> acc.c]
    ELSE LET Thawed(r) ==
                 ThawChildren(r.w, Tail(children), generation, loader,
                     [new_nodes |-> Append(acc.new_nodes, r.node),
                      c |-> Append(acc.c, KeyIndexPair(Head(children).key,
                                       Len(w.nodes) + Len(acc.c)))])
         IN  Thawed(thaw(w, Head(children).link, generation, loader))

RECURSIVE MigrateChildren(_, _, _, _)
\* the map over the owned children of another generation in make_owned
MigrateChildren(w, value, generation, acc) ==
    IF value = <<>>
    THEN [w |-> w, new_nodes |-> acc.new_nodes, c |-> acc.c]
    ELSE LET Migrated(r) ==
                 MigrateChildren(r.w, Tail(value), generation,
                     [new_nodes |-> Append(acc.new_nodes, r.node),
                      c |-> Append(acc.c, KeyIndexPair(Head(value).key,
                                       Len(w.nodes) + Len(acc.c)))])
         IN  Migrated(migrate(w, At(w.nodes, Head(value).index), generation))

\* a make_owned that thaws or migrates the children whatever the tag of the
\* child list
make_owned_again(w, idx, loader) ==
    LET node == At(w.nodes, idx)
        none == [new_nodes |-> <<>>, c |-> <<>>]
        Extended(res) ==
            LET w1 == [res.w EXCEPT
                         !.nodes = SetAt(res.w.nodes \o res.new_nodes, idx,
                                         [node EXCEPT !.children =
                                             Owned(node.generation, res.c)])]
            IN  [w |-> w1, has_value |-> node.value # None,
                 children |-> At(w1.nodes, idx).children.value]
    IN  IF node.children.tag = "Borrowed"
        THEN Extended(ThawChildren(w, node.children.value, node.generation,
                                   loader, none))
        ELSE Extended(MigrateChildren(w, node.children.value, node.generation,
                                      none))

\* make_owned: [w, has_value, children], children the owned child list of
\* node idx after the call
make_owned(w, idx, loader) ==
    LET node == At(w.nodes, idx)
        node_generation == node.generation
        has_value == node.value # None
        none == [new_nodes |-> <<>>, c |-> <<>>]
        fresh == node.children.tag = "Borrowed"
                 \/ node.children.generation # node_generation
        Result(w1) == [w |-> w1, has_value |-> has_value,
                       children |-> At(w1.nodes, idx).children.value]
        \* the new nodes are appended and the child list becomes owned
        Extended(res) ==
            Result([res.w EXCEPT
                      !.nodes = SetAt(res.w.nodes \o res.new_nodes, idx,
                                      [node EXCEPT !.children =
                                          Owned(node_generation, res.c)])])
    IN  IF ~fresh THEN Result(w)
        ELSE IF node.children.tag = "Borrowed"
        THEN Extended(ThawChildren(w, node.children.value, node_generation,
                                   loader, none))
        ELSE Extended(MigrateChildren(w, node.children.value, node_generation,
                                      none))

(***************************************************************************)
(* MutableTrie: get_entry, with_entry, insert                              *)
(***************************************************************************)
RECURSIVE get_entry_loop(_, _, _, _)
get_entry_loop(w, loader, key_iter, node_idx) ==
    LET node == At(w.nodes, node_idx)
        f == follow_stem(key_iter, node.path)
    IN  IF f.tag = "Equal" THEN [w |-> w, res |-> node.value]
        ELSE IF f.tag = "StemIsPrefix"
        THEN LET Found(m, pair) ==
                     IF m.w.panic \/ ~pair.ok
                     THEN [w |-> m.w, res |-> None]
                     ELSE get_entry_loop(m.w, loader, f.key_iter,
                                         At(m.children, pair.idx).index)
                 Owning(m) == Found(m, binary_search_by(m.children, f.key_step))
             IN  Owning(make_owned(w, node_idx, loader))
        ELSE [w |-> w, res |-> None]

\* MutableTrie::get_entry: [w, res], res an entry id or None
get_entry(w, loader, key) ==
    IF CurrentRoot(w) = None
    THEN [w |-> w, res |-> None]
    ELSE get_entry_loop(w, loader, key, CurrentRoot(w))

\* CachedRef::use_value / CachedRef::get of a value cell: [ok, value]
use_value(cell, loader) ==
    LET Read(r) == [ok |-> r.ok, data |-> r.data]
    IN  IF cell.tag = "Disk"
        THEN Read(load_raw(loader, cell.key))
        ELSE [ok |-> TRUE, data |-> cell.value]

\* MutableTrie::with_entry with f the identity: [some, value, panic]
with_entry(w, entry, loader) ==
    LET no == [some |-> FALSE, value |-> <<>>, panic |-> FALSE]
        e == At(w.entries, entry)
    IN  IF entry < 0 \/ entry >= Len(w.entries)
        THEN [no EXCEPT !.panic = TRUE]
        ELSE IF e.tag = "Deleted" THEN no
        ELSE IF e.tag = "ReadOnly" /\ e.borrowed
        THEN IF e.entry_idx < Len(w.borrowed_values)
             THEN LET Used(v) == [some |-> v.ok, value |-> v.data, panic |-> ~v.ok]
                  IN  Used(use_value(
                               At(w.links, At(w.borrowed_values, e.entry_idx)).data,
                               loader))
             ELSE no
        ELSE IF e.entry_idx < Len(w.values)
             THEN [some |-> TRUE, value |-> At(w.values, e.entry_idx), panic |-> FALSE]
             ELSE no

\* the result of insert: Some((new, old)) or None
InsertSome(new, old) == [some |-> TRUE, new |-> new, old |-> old]

InsertNone == [some |-> FALSE, new |-> None, old |-> None]

\* push the new value and its Mutable entry: values.push, entries.push
PushValue(w, new_value) ==
    [w EXCEPT !.values = Append(w.values, new_value),
              !.entries = Append(w.entries, Mutable(Len(w.values)))]

\* "Update the parents children index with the new child", or the root
Reparent(w, parent_node_idxs, new_node_idx) ==
    IF parent_node_idxs.some
    THEN LET parent_node == At(w.nodes, parent_node_idxs.node)
             children == parent_node.children
             child_idx == parent_node_idxs.child
         IN  IF children.tag = "Owned" /\ child_idx < Len(children.value)
             THEN [w EXCEPT !.nodes[parent_node_idxs.node + 1].children.value[child_idx + 1] =
                       KeyIndexPair(At(children.value, child_idx).key, new_node_idx)]
             ELSE w
    ELSE SetCurrentRoot(w, new_node_idx)

RECURSIVE insert_loop(_, _, _, _, _, _, _, _)
insert_loop(w, loader, key, new_value, generation, key_iter, node_idx, parent_node_idxs) ==
    LET key_slice == key_iter
        owned_nodes_len == Len(w.nodes)
        node == At(w.nodes, node_idx)
        f == follow_stem(key_iter, node.path)
        entry_idx == Len(w.entries)
    IN  CASE f.tag = "Equal" ->
              IF node.locked > 0
              THEN [w |-> w, res |-> InsertNone]
              ELSE [w |-> [PushValue(w, new_value) EXCEPT
                             !.nodes[node_idx + 1].value = entry_idx],
                    res |-> InsertSome(entry_idx, node.value)]
          [] f.tag = "KeyIsPrefix" ->
              LET new_node_idx == owned_nodes_len
                  w1 == [PushValue(w, new_value) EXCEPT
                            !.nodes[node_idx + 1].path = f.stem_iter]
                  w2 == Reparent(w1, parent_node_idxs, new_node_idx)
                  new_node == MutableNode(generation, entry_idx, key_slice,
                                  Owned(generation,
                                        <<KeyIndexPair(f.stem_step, node_idx)>>), 0)
              IN  [w |-> [w2 EXCEPT !.nodes = Append(w2.nodes, new_node)],
                   res |-> InsertSome(entry_idx, None)]
          [] f.tag = "StemIsPrefix" ->
              IF node.locked > 0
              THEN [w |-> w, res |-> InsertNone]
              ELSE LET new_key_node_idx == owned_nodes_len
                       Searched(m, idx) ==
                           IF m.w.panic THEN [w |-> m.w, res |-> InsertNone]
                           ELSE IF idx.ok
                           THEN insert_loop(m.w, loader, key, new_value, generation,
                                    f.key_iter, At(m.children, idx.idx).index,
                                    [some |-> TRUE, node |-> node_idx,
                                     child |-> idx.idx])
                           ELSE LET w1 == [m.w EXCEPT
                                             !.nodes[node_idx + 1].children.value =
                                                InsertAt(m.children, idx.idx,
                                                    KeyIndexPair(f.key_step,
                                                                 new_key_node_idx))]
                                    w2 == [w1 EXCEPT
                                             !.values = Append(w1.values, new_value),
                                             !.entries = Append(w1.entries,
                                                            Mutable(Len(w1.values)))]
                                IN  [w |-> [w2 EXCEPT !.nodes = Append(w2.nodes,
                                               MutableNode(generation, Len(w1.entries),
                                                   f.key_iter,
                                                   Owned(generation, <<>>), 0))],
                                     res |-> InsertSome(Len(w1.entries), None)]
                       Owning(m) == Searched(m, binary_search_by(m.children,
                                                                 f.key_step))
                   IN  Owning(make_owned(w, node_idx, loader))
          [] OTHER ->
              \* Diff
              LET remaining_stem == f.stem_iter
                  remaining_key_len == Len(f.key_iter)
                  remaining_key == f.key_iter
                  new_stem == SubSeq(key_slice, 1,
                                     Len(key_slice) - remaining_key_len - 1)
                  remaining_key_node_idx == owned_nodes_len
                  new_node_idx == owned_nodes_len + 1
                  w1 == [PushValue(w, new_value) EXCEPT
                            !.nodes[node_idx + 1].path = remaining_stem]
                  remaining_key_node ==
                      MutableNode(generation, entry_idx, remaining_key,
                                  Owned(generation, <<>>), 0)
                  children ==
                      IF f.key_step < f.stem_step
                      THEN <<KeyIndexPair(f.key_step, remaining_key_node_idx),
                             KeyIndexPair(f.stem_step, node_idx)>>
                      ELSE <<KeyIndexPair(f.stem_step, node_idx),
                             KeyIndexPair(f.key_step, remaining_key_node_idx)>>
                  new_node == MutableNode(generation, None, new_stem,
                                          Owned(generation, children), 0)
                  w2 == [w1 EXCEPT !.nodes = w1.nodes \o
                                       <<remaining_key_node, new_node>>]
              IN  [w |-> Reparent(w2, parent_node_idxs, new_node_idx),
                   res |-> InsertSome(entry_idx, None)]

\* MutableTrie::insert: [w, res]
insert(w, loader, key, new_value) ==
    IF Len(w.generation_roots) = 0
    THEN \* expect("There should always be at least 1 generation.")
         [w |-> [w EXCEPT !.panic = TRUE], res |-> InsertNone]
    ELSE IF CurrentRoot(w) = None
    THEN LET generation == Len(w.generation_roots) - 1
             root_idx == Len(w.nodes)
             entry_idx == Len(w.entries)
             w1 == [PushValue(w, new_value) EXCEPT
                      !.nodes = Append(w.nodes,
                          MutableNode(generation, entry_idx, key,
                                      Owned(generation, <<>>), 0))]
         IN  [w |-> SetCurrentRoot(w1, root_idx),
              res |-> InsertSome(entry_idx, None)]
    ELSE insert_loop(w, loader, key, new_value,
                     At(w.nodes, CurrentRoot(w)).generation, key,
                     CurrentRoot(w), [some |-> FALSE, node |-> 0, child |-> 0])

(***************************************************************************)
(* MutableTrie: delete                                                     *)
(***************************************************************************)
NoParent == [some |-> FALSE, child |-> 0, node |-> 0]

SomeParent(child_idx, node_idx) == [some |-> TRUE, child |-> child_idx, node |-> node_idx]

\* a path compression that is not carried out
collapse_skipped(w, idx, child, above) == w

\* The path compression shared by delete and delete_prefix: node idx has
\* been left with the single child `child`; the node is taken out of the
\* arena, its stem is prepended to the child's and the child takes its
\* place under `above` (the pair (child index, node index) of the node
\* above idx), or becomes the root.
Collapse(w, idx, child, above) ==
    LET node == At(w.nodes, idx)
        taken == SetAt(w.nodes, idx, DefaultNode)
        child_node == At(taken, child.index)
        new_stem == StemExtend(node.path, child.key, child_node.path)
        w1 == [w EXCEPT !.nodes =
                  SetAt(taken, child.index, [child_node EXCEPT !.path = new_stem])]
    IN  IF above.some
        THEN LET place == At(At(w1.nodes, above.node).children.value, above.child)
             IN  [w1 EXCEPT !.nodes[above.node + 1].children.value[above.child + 1] =
                     KeyIndexPair(place.key, child.index)]
        ELSE SetCurrentRoot(w1, child.index)

\* a delete that takes the value out of the node and leaves the node where
\* it is
delete_found_leaving_node(w, loader, node_idx, father, grandfather) ==
    LET rv == At(w.nodes, node_idx).value
        w0 == [w EXCEPT !.nodes[node_idx + 1].value = None]
    IN  [w |-> IF rv # None
               THEN [w0 EXCEPT !.entries = SetAt(w0.entries, rv, Deleted)]
               ELSE w0,
         res |-> rv]

\* a delete that answers with the entry of the node and leaves the node as
\* it is
delete_keeping_value(w, loader, node_idx, father, grandfather) ==
    [w |-> w, res |-> At(w.nodes, node_idx).value]

\* the Equal case of delete at node_idx: [w, res]
delete_found(w, loader, node_idx, father, grandfather) ==
    LET node == At(w.nodes, node_idx)
        rv == node.value
        w0 == [w EXCEPT !.nodes[node_idx + 1].value = None]
        w1 == IF rv # None
              THEN [w0 EXCEPT !.entries = SetAt(w0.entries, rv, Deleted)]
              ELSE w0
        \* the node had no children: it is removed from its father
        Removed(fm) ==
            LET father_children == RemoveAt(fm.children, father.child)
                w2 == [fm.w EXCEPT
                         !.nodes[father.node + 1].children.value = father_children]
            IN  IF ~fm.has_value /\ Len(father_children) = 1
                THEN LET child == LastOf(father_children)
                         w3 == [w2 EXCEPT
                                  !.nodes[father.node + 1].children.value = <<>>]
                     IN  [w |-> Collapse(w3, father.node, child, grandfather),
                          res |-> rv]
                ELSE [w |-> w2, res |-> rv]
        Owning(m) ==
            IF m.w.panic THEN [w |-> m.w, res |-> None]
            ELSE IF Len(m.children) = 1
            THEN LET child == LastOf(m.children)
                     w2 == [m.w EXCEPT !.nodes[node_idx + 1].children.value = <<>>]
                 IN  [w |-> Collapse(w2, node_idx, child, father), res |-> rv]
            ELSE IF Len(m.children) = 0
            THEN IF father.some
                 THEN Removed(make_owned(m.w, father.node, loader))
                 ELSE [w |-> SetCurrentRoot(m.w, None), res |-> rv]
            ELSE [w |-> m.w, res |-> rv]
    IN  Owning(make_owned(w1, node_idx, loader))

RECURSIVE delete_loop(_, _, _, _, _, _)
delete_loop(w, loader, key_iter, node_idx, father, grandfather) ==
    LET node == At(w.nodes, node_idx)
        f == follow_stem(key_iter, node.path)
    IN  IF f.tag = "Equal"
        THEN IF node.locked > 0
             THEN [w |-> w, res |-> None]
             ELSE delete_found(w, loader, node_idx, father, grandfather)
        ELSE IF f.tag = "StemIsPrefix"
        THEN IF node.locked > 0
             THEN [w |-> w, res |-> None]
             ELSE LET Found(m, c) ==
                          IF m.w.panic \/ ~c.ok
                          THEN [w |-> m.w, res |-> None]
                          ELSE delete_loop(m.w, loader, f.key_iter,
                                   At(m.children, c.idx).index,
                                   SomeParent(c.idx, node_idx), father)
                      Owning(m) == Found(m, binary_search_by(m.children, f.key_step))
                  IN  Owning(make_owned(w, node_idx, loader))
        ELSE [w |-> w, res |-> None]

\* a delete that, when it is refused, takes the lock off the root
delete_unlocking(w, loader, key) ==
    IF CurrentRoot(w) = None
    THEN [w |-> w, res |-> None]
    ELSE LET Refused(r) ==
                 IF r.res = None
                 THEN [r EXCEPT !.w.nodes[CurrentRoot(w) + 1].locked = 0]
                 ELSE r
         IN  Refused(delete_loop(w, loader, key, CurrentRoot(w), NoParent, NoParent))

\* MutableTrie::delete: [w, res], res the deleted entry or None
delete(w, loader, key) ==
    IF CurrentRoot(w) = None
    THEN [w |-> w, res |-> None]
    ELSE delete_loop(w, loader, key, CurrentRoot(w), NoParent, NoParent)

(***************************************************************************)
(* MutableTrie: delete_prefix.  A TraversalCounter is the number of ticks  *)
(* it still answers Ok(()); the next tick after that is an error.          *)
(***************************************************************************)
\* EmptyCounter: tick is always Ok(())
EmptyCounter == -1

\* the counter after a tick that answered Ok(())
Tick(counter) == IF counter = EmptyCounter THEN EmptyCounter ELSE counter - 1

RECURSIVE invalidate_loop(_, _, _)
\* the scan over nodes_to_invalidate: [w, counter, res], res one of
\* "done", "locked", "err"
invalidate_loop(w, counter, nodes_to_invalidate) ==
    IF nodes_to_invalidate = <<>>
    THEN [w |-> w, counter |-> counter, res |-> "done"]
    ELSE LET node_idx == LastOf(nodes_to_invalidate)
             rest == Pop(nodes_to_invalidate)
             to_invalidate == At(w.nodes, node_idx)
             w1 == IF to_invalidate.value # None
                   THEN [w EXCEPT !.entries =
                            SetAt(w.entries, to_invalidate.value, Deleted)]
                   ELSE w
             children == to_invalidate.children
             pushed == IF children.tag = "Owned"
                          /\ to_invalidate.generation = children.generation
                       THEN [i \in 1..Len(children.value) |->
                                children.value[i].index]
                       ELSE <<>>
         IN  IF counter = 0
             THEN [w |-> w, counter |-> counter, res |-> "err"]
             ELSE IF to_invalidate.locked > 0
             THEN [w |-> w, counter |-> Tick(counter), res |-> "locked"]
             ELSE invalidate_loop(w1, Tick(counter), rest \o pushed)

\* the subtree is removed and the parent is left as it is, one child or not
delete_prefix_found_uncollapsed(w, loader, counter, node_idx, parent_idx, grandparent_idx) ==
    LET Removed(remaining, m) ==
            [w |-> [m.w EXCEPT !.nodes[parent_idx.node + 1].children.value =
                                   RemoveAt(m.children, parent_idx.child)],
             counter |-> remaining, res |-> "true"]
        Invalidated(inv) ==
            IF inv.res = "err"
            THEN [w |-> inv.w, counter |-> inv.counter, res |-> "err"]
            ELSE IF inv.res = "locked"
            THEN [w |-> inv.w, counter |-> inv.counter, res |-> "false"]
            ELSE IF parent_idx.some
            THEN Removed(inv.counter, make_owned(inv.w, parent_idx.node, loader))
            ELSE [w |-> SetCurrentRoot(inv.w, None), counter |-> inv.counter,
                  res |-> "true"]
    IN  Invalidated(invalidate_loop(w, counter, <<node_idx>>))

\* the subtree at node_idx is the one to remove: [w, counter, res]
delete_prefix_found(w, loader, counter, node_idx, parent_idx, grandparent_idx) ==
    LET \* the subtree is removed from its parent
        Removed(remaining, m) ==
            LET children == RemoveAt(m.children, parent_idx.child)
                w2 == [m.w EXCEPT
                         !.nodes[parent_idx.node + 1].children.value = children]
            IN  IF ~m.has_value /\ Len(children) = 1
                THEN LET child == LastOf(children)
                         w3 == [w2 EXCEPT
                                  !.nodes[parent_idx.node + 1].children.value = <<>>]
                     IN  [w |-> Collapse(w3, parent_idx.node, child, grandparent_idx),
                          counter |-> remaining, res |-> "true"]
                ELSE [w |-> w2, counter |-> remaining, res |-> "true"]
        Invalidated(inv) ==
            IF inv.res = "err"
            THEN [w |-> inv.w, counter |-> inv.counter, res |-> "err"]
            ELSE IF inv.res = "locked"
            THEN [w |-> inv.w, counter |-> inv.counter, res |-> "false"]
            ELSE IF parent_idx.some
            THEN Removed(inv.counter, make_owned(inv.w, parent_idx.node, loader))
            ELSE [w |-> SetCurrentRoot(inv.w, None), counter |-> inv.counter,
                  res |-> "true"]
    IN  Invalidated(invalidate_loop(w, counter, <<node_idx>>))

RECURSIVE delete_prefix_loop(_, _, _, _, _, _, _)
delete_prefix_loop(w, loader, counter, key_iter, node_idx, parent_idx, grandparent_idx) ==
    LET node == At(w.nodes, node_idx)
        f == follow_stem(key_iter, node.path)
        refused == [w |-> w, counter |-> counter, res |-> "false"]
    IN  IF f.tag = "StemIsPrefix"
        THEN IF node.locked > 0 THEN refused
             ELSE LET Found(m, c) ==
                          IF m.w.panic \/ ~c.ok
                          THEN [w |-> m.w, counter |-> counter, res |-> "false"]
                          ELSE delete_prefix_loop(m.w, loader, counter, f.key_iter,
                                   At(m.children, c.idx).index,
                                   SomeParent(c.idx, node_idx), parent_idx)
                      Owning(m) == Found(m, binary_search_by(m.children, f.key_step))
                  IN  Owning(make_owned(w, node_idx, loader))
        ELSE IF f.tag = "Diff" THEN refused
        ELSE IF node.locked > 0 THEN refused
        ELSE delete_prefix_found(w, loader, counter, node_idx, parent_idx,
                                 grandparent_idx)

\* MutableTrie::delete_prefix: [w, counter, res], res one of "true", "false"
\* (Ok(true), Ok(false)) and "err" (the counter's error)
delete_prefix(w, loader, key, counter) ==
    IF CurrentRoot(w) = None
    THEN [w |-> w, counter |-> counter, res |-> "false"]
    ELSE delete_prefix_loop(w, loader, counter, key, CurrentRoot(w),
                            NoParent, NoParent)

(***************************************************************************)
(* MutableTrie: generations                                                *)
(***************************************************************************)
\* MutableTrie::new_generation
new_generation(w) ==
    LET cp == Checkpoint(Len(w.nodes), Len(w.values), Len(w.borrowed_values),
                         Len(w.entries))
        root_idx == CurrentRoot(w)
    IN  IF Len(w.generation_roots) = 0 THEN w
        ELSE IF root_idx # None
        THEN LET root == At(w.nodes, root_idx)
                 Migrated(r) ==
                     [r.w EXCEPT
                        !.nodes = Append(r.w.nodes, r.node),
                        !.generation_roots = Append(w.generation_roots,
                            [root |-> Len(w.nodes), cp |-> cp])]
             IN  Migrated(migrate(w, root, root.generation + 1))
        ELSE [w EXCEPT !.generation_roots =
                 Append(w.generation_roots, [root |-> None, cp |-> cp])]

\* the truncation of the four tables to a checkpoint
TruncateTo(w, num_remaining) ==
    [w EXCEPT !.nodes = Truncate(w.nodes, num_remaining.num_nodes),
              !.values = Truncate(w.values, num_remaining.num_values),
              !.borrowed_values = Truncate(w.borrowed_values,
                                           num_remaining.num_borrowed_nodes),
              !.entries = Truncate(w.entries, num_remaining.num_entries)]

\* MutableTrie::pop_generation: [w, some]
pop_generation(w) ==
    IF Len(w.generation_roots) = 0
    THEN [w |-> w, some |-> FALSE]
    ELSE [w |-> TruncateTo([w EXCEPT !.generation_roots = Pop(w.generation_roots)],
                           LastOf(w.generation_roots).cp),
          some |-> TRUE]

(***************************************************************************)
(* MutableTrie: iter, delete_iter                                          *)
(***************************************************************************)
U16Max == 65535

Iterator(root, current_node, key, next_child, stack) ==
    [root |-> root, current_node |-> current_node, key |-> key,
     next_child |-> next_child, stack |-> stack]

NoIterator == Iterator(0, 0, <<>>, None, <<>>)

RECURSIVE iter_loop(_, _, _, _, _)
iter_loop(w, loader, key, key_iter, node_idx) ==
    LET node == At(w.nodes, node_idx)
        f == follow_stem(key_iter, node.path)
        root_key == IF f.tag = "Equal" THEN key
                    ELSE key \o <<f.stem_step>> \o f.stem_iter
    IN  IF f.tag \in {"Equal", "KeyIsPrefix"}
        THEN IF node.locked >= U16Max
             THEN [w |-> w, res |-> "err", it |-> NoIterator]
             ELSE [w |-> [w EXCEPT !.nodes[node_idx + 1].locked = node.locked + 1],
                   res |-> "some",
                   it |-> Iterator(node_idx, node_idx, root_key, None, <<>>)]
        ELSE IF f.tag = "StemIsPrefix"
        THEN LET Found(m, pair) ==
                     IF m.w.panic \/ ~pair.ok
                     THEN [w |-> m.w, res |-> "none", it |-> NoIterator]
                     ELSE iter_loop(m.w, loader, key, f.key_iter,
                                    At(m.children, pair.idx).index)
                 Owning(m) == Found(m, binary_search_by(m.children, f.key_step))
             IN  Owning(make_owned(w, node_idx, loader))
        ELSE [w |-> w, res |-> "none", it |-> NoIterator]

\* an iter that adds to the counter with wrapping_add
iter_wrapping(w, loader, key) ==
    LET Wrapped(r) ==
            IF r.res # "err" THEN r
            ELSE [w |-> [r.w EXCEPT !.nodes =
                             [i \in 1..Len(r.w.nodes) |->
                                 IF r.w.nodes[i].locked = U16Max
                                 THEN [r.w.nodes[i] EXCEPT !.locked = 0]
                                 ELSE r.w.nodes[i]]],
                  res |-> "some", it |-> NoIterator]
    IN  IF CurrentRoot(w) = None
        THEN [w |-> w, res |-> "none", it |-> NoIterator]
        ELSE Wrapped(iter_loop(w, loader, key, key, CurrentRoot(w)))

\* MutableTrie::iter: [w, res, it], res one of "some" (Ok(Some(it))),
\* "none" (Ok(None)) and "err" (Err(TooManyIterators))
iter(w, loader, key) ==
    IF CurrentRoot(w) = None
    THEN [w |-> w, res |-> "none", it |-> NoIterator]
    ELSE iter_loop(w, loader, key, key, CurrentRoot(w))

\* MutableTrie::delete_iter
delete_iter(w, iterator) ==
    IF iterator.root >= Len(w.nodes)
    THEN [w EXCEPT !.panic = TRUE]
    ELSE LET n == At(w.nodes, iterator.root)
         IN  [w EXCEPT !.nodes[iterator.root + 1].locked =
                 IF n.locked = 0 THEN 0 ELSE n.locked - 1]

(***************************************************************************)
(* Hashing of persistent nodes and MutableTrie::freeze                     *)
(***************************************************************************)
\* ToSHA256 for CachedRef<Hashed<Node<V>>>: the hash of the node behind a
\* child cell, read from the store when the cell is Disk: [ok, hash]
ChildHash(cell, loader) ==
    IF cell.tag = "Disk"
    THEN LET Read(raw, hash) == [ok |-> raw.ok /\ hash.ok, hash |-> hash.val]
             Raw(raw) == Read(raw, ReadExact(raw.data, HashLen))
         IN  Raw(load_raw(loader, cell.key))
    ELSE [ok |-> TRUE, hash |-> cell.value.hash]

RECURSIVE ChildrenBytes(_, _, _)
\* what the child hasher is fed for the children: key byte, child hash
ChildrenBytes(lnk, children, loader) ==
    IF children = <<>> THEN <<>>
    ELSE <<Head(children).key>>
         \o ChildHash(At(lnk, Head(children).link), loader).hash
         \o ChildrenBytes(lnk, Tail(children), loader)

\* ToSHA256 for Node<V>
HashNode(lnk, node, loader) ==
    Sha256((IF node.value # None
            THEN <<1>> \o At(lnk, node.value).hash
            ELSE <<0>>)
           \o node.path
           \o Sha256(BigEndian(Len(node.children), 2)
                     \o ChildrenBytes(lnk, node.children, loader)))

\* a call of the collector: which method, for which entry (add_value) or
\* node (add_path, add_children), and with what
Collected(call, of, arg) == [call |-> call, of |-> of, arg |-> arg]

\* freeze_value: [w, value], value a link or None
freeze_value(w, mutable) ==
    LET entry == At(w.entries, mutable)
        value == At(w.values, entry.entry_idx)
    IN  IF mutable = None \/ entry.tag = "Deleted"
        THEN [w |-> w, value |-> None]
        ELSE IF entry.tag = "ReadOnly" /\ entry.borrowed
        THEN [w |-> w, value |-> At(w.borrowed_values, entry.entry_idx)]
        ELSE [w |-> [w EXCEPT
                       !.values = SetAt(w.values, entry.entry_idx, <<>>),
                       !.links = Append(w.links,
                                        Hashed(HashValue(value), Memory(value))),
                       \* collector.add_value(&value)
                       !.collector = Append(w.collector,
                                            Collected("add_value", mutable, value))],
              value |-> Len(w.links)]

RECURSIVE Reachable(_, _, _)
\* "get the reachable owned nodes": the order in which freeze visits them
Reachable(w, reachable_stack, reachable) ==
    IF reachable_stack = <<>> THEN reachable
    ELSE LET idx == LastOf(reachable_stack)
             children == At(w.nodes, idx).children
         IN  Reachable(w,
                 Pop(reachable_stack)
                   \o (IF children.tag = "Owned"
                       THEN [i \in 1..Len(children.value) |-> children.value[i].index]
                       ELSE <<>>),
                 Append(reachable, idx))

RECURSIVE FreezeChildren(_, _, _, _)
\* the loop over the owned children of a node in freeze: every child is
\* removed from the map of frozen nodes and put behind a new Memory link.
\* [w, nodes, children]
FreezeChildren(w, nodes, owned, children) ==
    IF owned = <<>> THEN [w |-> w, nodes |-> nodes, children |-> children]
    ELSE LET child == Head(owned)
         IN  IF child.index \notin DOMAIN nodes
             THEN \* nodes.remove(..).unwrap()
                  [w |-> [w EXCEPT !.panic = TRUE], nodes |-> nodes,
                   children |-> children]
             ELSE FreezeChildren(
                      [w EXCEPT !.links = Append(w.links,
                                                 Memory(nodes[child.index]))],
                      [i \in DOMAIN nodes \ {child.index} |-> nodes[i]],
                      Tail(owned),
                      Append(children, [key |-> child.key, link |-> Len(w.links)]))

RECURSIVE FreezeNodes(_, _, _, _)
\* the bottom-up loop of freeze over the reachable nodes: [w, nodes]
FreezeNodes(w, loader, todo, nodes) ==
    IF todo = <<>> \/ w.panic THEN [w |-> w, nodes |-> nodes]
    ELSE LET node_idx == LastOf(todo)
             node == At(w.nodes, node_idx)
             w1 == [w EXCEPT !.nodes = SetAt(w.nodes, node_idx, DefaultNode)]
             Hashing(ch, fv, new_node, hash) ==
                 FreezeNodes(fv.w, loader, Pop(todo),
                     [i \in DOMAIN ch.nodes \cup {node_idx} |->
                         IF i = node_idx THEN Hashed(hash, new_node)
                         ELSE ch.nodes[i]])
             Built(ch, fv, new_node) ==
                 Hashing(ch, fv, new_node, HashNode(fv.w.links, new_node, loader))
             Valued(ch, fv) == Built(ch, fv, Node(fv.value, node.path, ch.children))
             \* collector.add_path(..); collector.add_children(..)
             Collecting(ch, fv) ==
                 Valued(ch, [fv EXCEPT !.w.collector =
                                 fv.w.collector
                                     \o <<Collected("add_path", node_idx, Len(node.path)),
                                          Collected("add_children", node_idx,
                                                    Len(ch.children))>>])
             Frozen(ch) ==
                 IF ch.w.panic THEN [w |-> ch.w, nodes |-> nodes]
                 ELSE Collecting(ch, freeze_value(ch.w, node.value))
         IN  IF node.children.tag = "Borrowed"
             THEN Frozen([w |-> w1, nodes |-> nodes,
                          children |-> node.children.value])
             ELSE Frozen(FreezeChildren(w1, nodes, node.children.value, <<>>))

\* MutableTrie::freeze: [some, root, links, panic, collector]; root is the
\* Hashed<Node<V>> returned, collector the calls the collector received
freeze(w, loader) ==
    LET no == [some |-> FALSE, root |-> Hashed(<<>>, Node(None, <<>>, <<>>)),
               links |-> w.links, panic |-> FALSE, collector |-> <<>>]
        root_idx == CurrentRoot(w)
        Frozen(r) ==
            IF r.w.panic \/ Cardinality(DOMAIN r.nodes) # 1
            THEN [no EXCEPT !.panic = TRUE, !.links = r.w.links,
                            !.collector = r.w.collector]
            ELSE [some |-> TRUE, root |-> r.nodes[CHOOSE i \in DOMAIN r.nodes : TRUE],
                  links |-> r.w.links, panic |-> FALSE,
                  collector |-> r.w.collector]
    IN  IF root_idx = None THEN no
        ELSE Frozen(FreezeNodes(w, loader, Reachable(w, <<root_idx>>, <<>>), <<>>))

\* Node::make_mutable: the trie thawed from a persistent root node
make_mutable(lnk, self, generation) ==
    LET Thawed(r) ==
            [generation_roots |-> <<[root |-> 0, cp |-> Checkpoint(0, 0, 0, 0)]>>,
             entries |-> r.w.entries, values |-> <<>>,
             borrowed_values |-> r.w.borrowed_values, nodes |-> <<r.node>>]
    IN  Thawed(NodeThaw(World(EmptyTrie, lnk), self, generation))

(***************************************************************************)
(* Persisting a frozen tree: store_and_cache, store_update, Node::cache,   *)
(* Node::lookup.  The functions work on a record st with the heap links,   *)
(* the backing store, the stack of references ref_stack and the flag       *)
(* panic.                                                                  *)
(***************************************************************************)
\* Reference::store
ReferenceStore(key) == BigEndian(key, 8)

\* a store_and_cache that writes the value and its reference and leaves the
\* cell in memory
store_and_cache_forgetting(st, link, buf) ==
    LET cell == At(st.links, link)
    IN  IF cell.data.tag = "Memory"
        THEN LET r == store_raw(st.store, cell.data.value)
             IN  [st |-> [st EXCEPT !.store = r.store],
                  buf |-> buf \o ReferenceStore(r.key)]
        ELSE [st |-> st, buf |-> buf \o ReferenceStore(cell.data.key)]

\* CachedRef::store_and_cache on the value cell behind link: [st, buf]
store_and_cache(st, link, buf) ==
    LET cell == At(st.links, link)
    IN  IF cell.data.tag = "Memory"
        THEN LET r == store_raw(st.store, cell.data.value)
             IN  [st |-> [st EXCEPT
                            !.store = r.store,
                            !.links = SetAt(st.links, link,
                                Hashed(cell.hash, Cached(r.key, cell.data.value)))],
                  buf |-> buf \o ReferenceStore(r.key)]
        ELSE [st |-> st, buf |-> buf \o ReferenceStore(cell.data.key)]

RECURSIVE StoreChildren(_, _, _)
\* the loop of store_node over the children: the key byte of every child,
\* in order, each followed by the reference popped from ref_stack
StoreChildren(st, children, buf) ==
    IF children = <<>> THEN [st |-> st, buf |-> buf]
    ELSE IF st.ref_stack = <<>>
    THEN \* ref_stack.pop().unwrap()
         [st |-> [st EXCEPT !.panic = TRUE], buf |-> buf]
    ELSE StoreChildren([st EXCEPT !.ref_stack = Pop(st.ref_stack)],
                       Tail(children),
                       buf \o <<Head(children).key>>
                           \o ReferenceStore(LastOf(st.ref_stack)))

\* the closure store_node of store_update_buf: [st, buf]
store_node(st, node, buf) ==
    LET stem_len == Len(node.path)
        value_mask == IF node.value = None THEN 0 ELSE 64
        tag == IF stem_len <= INLINE_STEM_LENGTH
               THEN <<stem_len + value_mask>>
               ELSE <<128 + value_mask>> \o BigEndian(stem_len, 4)
        buf1 == buf \o tag \o node.path
        WithValue(v) == StoreChildren(v.st, node.children,
                                      v.buf \o BigEndian(Len(node.children), 2))
    IN  IF node.value # None
        THEN WithValue(store_and_cache(st, node.value,
                                       buf1 \o At(st.links, node.value).hash))
        ELSE WithValue([st |-> st, buf |-> buf1])

\* the children of a node as they are pushed on the stack:
\* for (_, ch) in children.iter().rev() { stack.push((ch.clone(), false)) }
PushChildren(stack, children) ==
    stack \o [i \in 1..Len(children) |->
                 [link |-> children[Len(children) + 1 - i].link,
                  children_processed |-> FALSE]]

RECURSIVE store_loop(_, _)
\* the loop of store_update_buf over the stack of child links
store_loop(st, stack) ==
    IF stack = <<>> \/ st.panic THEN st
    ELSE LET top == LastOf(stack)
             rest == Pop(stack)
             cell == At(st.links, top.link)
         IN  IF cell.tag = "Memory"
             THEN IF top.children_processed
                  THEN LET Stored(n, r) ==
                               store_loop(
                                 [n.st EXCEPT
                                    !.store = r.store,
                                    !.ref_stack = Append(n.st.ref_stack, r.key),
                                    \* cache_with
                                    !.links = SetAt(n.st.links, top.link,
                                                    Cached(r.key, cell.value))],
                                 rest)
                           Written(n) == Stored(n, store_raw(n.st.store, n.buf))
                       IN  Written(store_node(st, cell.value.data, cell.value.hash))
                  ELSE store_loop(st,
                         PushChildren(
                           Append(rest, [link |-> top.link,
                                         children_processed |-> TRUE]),
                           cell.value.data.children))
             ELSE store_loop([st EXCEPT !.ref_stack = Append(st.ref_stack, cell.key)],
                             rest)

\* Hashed<Node<V>>::store_update: [links, store, buf, panic], buf the bytes
\* returned for the root
store_update(lnk, backing_store, self) ==
    LET st0 == [links |-> lnk, store |-> backing_store, ref_stack |-> <<>>,
                panic |-> FALSE]
        Root(st1, n) ==
            [links |-> n.st.links, store |-> n.st.store,
             buf |-> self.hash \o n.buf, panic |-> st1.panic \/ n.st.panic]
        Children(st1) == Root(st1, store_node(st1, self.data, <<>>))
    IN  Children(store_loop(st0, PushChildren(<<>>, self.data.children)))

\* CachedRef::load_and_cache on the value cell behind link
ValueLoadAndCache(st, link, loader) ==
    LET cell == At(st.links, link)
        Raw(raw) ==
            IF ~raw.ok THEN [st EXCEPT !.panic = TRUE]
            ELSE [st EXCEPT !.links = SetAt(st.links, link,
                              Hashed(cell.hash, Cached(cell.data.key, raw.data)))]
    IN  IF cell.data.tag # "Disk" THEN st
        ELSE Raw(load_raw(loader, cell.data.key))

\* CachedRef::load_and_cache on the child cell behind link
NodeLoadAndCache(st, link, loader) ==
    LET cell == At(st.links, link)
        Loaded(loaded) ==
            IF ~loaded.ok THEN [st EXCEPT !.panic = TRUE]
            ELSE [st EXCEPT !.links = SetAt(loaded.links, link,
                                            Cached(cell.key, loaded.node))]
        Raw(raw) ==
            IF ~raw.ok THEN [st EXCEPT !.panic = TRUE]
            ELSE Loaded(HashedNodeLoad(st.links, raw.data))
    IN  IF cell.tag # "Disk" THEN st
        ELSE Raw(load_raw(loader, cell.key))

RECURSIVE cache_loop(_, _, _)
\* the loop of Node::cache over the stack of child links
cache_loop(st, loader, stack) ==
    IF stack = <<>> \/ st.panic THEN st
    ELSE LET link == LastOf(stack)
             Valued(node, st2) ==
                 cache_loop(st2, loader,
                     Pop(stack) \o [i \in 1..Len(node.children) |->
                                       node.children[i].link])
             Node1(st1, node) ==
                 IF node.value # None
                 THEN Valued(node, ValueLoadAndCache(st1, node.value, loader))
                 ELSE Valued(node, st1)
             Cached1(st1) ==
                 IF st1.panic THEN st1
                 ELSE Node1(st1, At(st1.links, link).value.data)
         IN  Cached1(NodeLoadAndCache(st, link, loader))

\* Node::cache: [links, panic]
cache(lnk, loader, self) ==
    LET st0 == [links |-> lnk, panic |-> FALSE]
        Valued(st1) ==
            cache_loop(st1, loader,
                       [i \in 1..Len(self.children) |-> self.children[i].link])
    IN  IF self.value # None
        THEN Valued(ValueLoadAndCache(st0, self.value, loader))
        ELSE Valued(st0)

RECURSIVE NodeView(_, _)
\* a persistent Node<V> with the cells behind its links written out: the
\* stem, the value cell, and for every child its key byte and its cell with
\* the reference, the hash and the node it holds (a Disk cell is only its
\* reference)
NodeView(lnk, node) ==
    [path |-> node.path,
     value |-> IF node.value = None THEN <<>> ELSE <<At(lnk, node.value)>>,
     children |->
        [i \in 1..Len(node.children) |->
            LET cell == At(lnk, node.children[i].link)
            IN  [key |-> node.children[i].key,
                 child |-> IF cell.tag = "Disk" THEN <<cell>>
                           ELSE <<[tag |-> cell.tag, key |-> cell.key,
                                   hash |-> cell.value.hash,
                                   node |-> NodeView(lnk, cell.value.data)]>>]]]

\* Hashed<Node<V>> written out
HashedView(lnk, hashed) == [hash |-> hashed.hash, node |-> NodeView(lnk, hashed.data)]

(***************************************************************************)
(* Observations of a trie t (with the heap and the loader of the state):   *)
(* what get_entry and with_entry answer for a key.                         *)
(***************************************************************************)
\* get_entry(k): an entry id or None
EntryOf(t, k) == get_entry(World(t, links), store, k).res

\* with_entry of the entry get_entry(k) returns: [some, value, panic]
Lookup(t, k) ==
    LET Got(g) ==
            IF g.res = None
            THEN [some |-> FALSE, value |-> <<>>, panic |-> FALSE]
            ELSE with_entry(g.w, g.res, store)
    IN  Got(get_entry(World(t, links), store, k))

\* k has a live value
Present(t, k) == Lookup(t, k).some

\* for every key, whether get_entry finds an entry and the value behind it
Content(t) ==
    [k \in Keys |-> [has |-> EntryOf(t, k) # None, val |-> Lookup(t, k).value]]

RECURSIVE descent(_, _, _, _, _)
\* the nodes visited when walking down from node_idx along key_iter, as the
\* operations walk (make_owned at every step): [w, visited]
descent(w, loader, key_iter, node_idx, visited) ==
    LET node == At(w.nodes, node_idx)
        f == follow_stem(key_iter, node.path)
        seen == Append(visited, node_idx)
    IN  IF f.tag = "StemIsPrefix"
        THEN LET Found(m, pair) ==
                     IF m.w.panic \/ ~pair.ok
                     THEN [w |-> m.w, visited |-> seen]
                     ELSE descent(m.w, loader, f.key_iter,
                                  At(m.children, pair.idx).index, seen)
                 Owning(m) == Found(m, binary_search_by(m.children, f.key_step))
             IN  Owning(make_owned(w, node_idx, loader))
        ELSE [w |-> w, visited |-> seen]

\* some node on the path of key k is locked
LockedOnPath(t, k) ==
    /\ CurrentRoot(t) # None
    /\ LET Walked(d) ==
               \E i \in 1..Len(d.visited) : At(d.w.nodes, d.visited[i]).locked > 0
       IN  Walked(descent(World(t, links), store, k, CurrentRoot(t), <<>>))

(***************************************************************************)
(* The state machine: one MutableTrie, used by one caller that keeps the   *)
(* iterators it opened.                                                    *)
(***************************************************************************)
Call(op, key, value, res, entry, old) ==
    [op |-> op, key |-> key, value |-> value, res |-> res, entry |-> entry,
     old |-> old]

\* an iterator as the caller holds it: the prefix it was opened with, the
\* number of generations at that time, whether delete_iter was called, and
\* what the calls of next on it returned
Held(it, prefix, gen) ==
    [it |-> it, prefix |-> prefix, gen |-> gen, open |-> TRUE, got |-> <<>>]

OpenIters == {i \in 1..Len(iters) : iters[i].open}

RECURSIVE InsertAll(_, _)
\* the trie after inserting the keys of the set S, the key k with the value
\* Initial \o k
InsertAll(w, S) ==
    IF S = {} THEN w
    ELSE LET k == CHOOSE x \in S : \A y \in S : Len(x) <= Len(y)
         IN  InsertAll(insert(w, <<>>, k, Initial \o k).w, S \ {k})

\* the persistent tree that holds the keys of S: the tree frozen from a trie
\* built by inserts
FrozenTree(S) == freeze(InsertAll(World(EmptyTrie, <<>>), S), <<>>)

NoRoot == Hashed(<<>>, Node(None, <<>>, <<>>))

\* what the caller holds of a persistent tree: its root, the bytes
\* store_update returned for it, the root loaded from these bytes, whether
\* Node::cache ran on the loaded root, from which of the two roots the
\* trie was made mutable, the bytes serialize wrote, for which of the two
\* roots, and the root deserialize returned for them
Tree(some, root) ==
    [some |-> some, root |-> root, stored |-> FALSE, bytes |-> <<>>,
     loaded |-> [some |-> FALSE, root |-> NoRoot], cached |-> FALSE,
     source |-> "none", image |-> <<>>, imaged |-> "none",
     restored |-> [some |-> FALSE, root |-> NoRoot]]

NoTree == Tree(FALSE, NoRoot)

\* no cell is under observation
NoCell == [data |-> Disk(0), was |-> Disk(0), loads |-> 0, stores |-> 0]

\* The entry ids a caller keeps: none, or every id that insert, get_entry
\* and delete returned.  An id is kept with the key of the call, the number
\* of generations at the call (0 once that generation is popped) and
\* whether the caller was told it is invalid: delete returned it, or
\* delete_prefix returned Ok(true) for a prefix of its key in the
\* generation of the id.  reused records that insert returned as new an id
\* the caller already had.
NotKept == [on |-> FALSE, ids |-> {}, reused |-> FALSE]

Kept(ids, reused) == [on |-> TRUE, ids |-> ids, reused |-> reused]

Handed(call) ==
    LET gens == Len(trie.generation_roots)
        id == [e |-> call.entry, key |-> call.key, gen |-> gens,
               dead |-> call.op = "delete"]
        left == IF call.op = "pop_generation" THEN gens - 1
                ELSE IF call.entry + 1 < gens THEN call.entry + 1 ELSE gens
    IN  IF ~handed.on THEN handed
        ELSE IF call.op \in {"insert", "get_entry", "delete"}
                /\ call.res = "some" /\ call.entry # None
        THEN Kept({h \in handed.ids : h.e # id.e \/ h.key # id.key \/ h.gen # id.gen}
                      \cup {id},
                  handed.reused
                      \/ (call.op = "insert" /\ \E h \in handed.ids : h.e = id.e))
        ELSE IF call.op = "delete_prefix" /\ call.res = "true"
        THEN Kept({[h EXCEPT !.dead = h.dead \/ (h.gen = gens /\ IsPrefix(call.key, h.key))] :
                      h \in handed.ids},
                  handed.reused)
        ELSE IF call.op \in {"pop_generation", "normalize"}
        THEN Kept({[h EXCEPT !.gen = IF h.gen > left THEN 0 ELSE h.gen] : h \in handed.ids},
                  handed.reused)
        ELSE handed

\* A MutableTrie is constructed by MutableTrie::empty or by make_mutable
\* from a persistent tree.
Init ==
    /\ \E S \in InitKeySets :
          IF S = {}
          THEN /\ trie = EmptyTrie
               /\ links = <<>>
               /\ frozen = NoTree
          ELSE LET Thawed(f) ==
                       /\ trie = make_mutable(f.links, f.root.data, 0)
                       /\ links = f.links
                       /\ frozen = Tree(TRUE, f.root)
               IN  Thawed(FrozenTree(S))
    /\ store = <<>>
    /\ iters = <<>>
    /\ last = Call("new", <<>>, <<>>, "ok", None, None)
    /\ prev = trie
    /\ snaps = <<>>
    /\ steps = 0
    /\ cref = NoCell
    /\ handed = NotKept
    /\ threads = <<>>

\* the effect of a call on the trie and the bookkeeping common to all calls
Done(w, call) ==
    /\ trie' = TrieOf(w)
    /\ links' = w.links
    /\ last' = IF w.panic THEN [call EXCEPT !.res = "panic"] ELSE call
    /\ prev' = trie
    /\ steps' = steps + 1
    /\ handed' = Handed(call)
    /\ UNCHANGED <<store, frozen, cref, threads>>

Insert(k, v) ==
    /\ steps < MaxSteps
    /\ LET Returned(r) ==
               Done(r.w, Call("insert", k, v, IF r.res.some THEN "some" ELSE "none",
                              r.res.new, r.res.old))
       IN  Returned(insert(World(trie, links), store, k, v))
    /\ UNCHANGED <<iters, snaps>>

GetEntry(k) ==
    /\ steps < MaxSteps
    /\ LET Returned(r) ==
               Done(r.w, Call("get_entry", k, <<>>,
                              IF r.res = None THEN "none" ELSE "some", r.res, None))
       IN  Returned(get_entry(World(trie, links), store, k))
    /\ UNCHANGED <<iters, snaps>>

Delete(k) ==
    /\ steps < MaxSteps
    /\ LET Returned(r) ==
               Done(r.w, Call("delete", k, <<>>,
                              IF r.res = None THEN "none" ELSE "some", r.res, None))
       IN  Returned(delete(World(trie, links), store, k))
    /\ UNCHANGED <<iters, snaps>>

DeletePrefix(k, counter) ==
    /\ steps < MaxSteps
    /\ LET Returned(r) ==
               Done(r.w, Call("delete_prefix", k, <<>>, r.res, counter, None))
       IN  Returned(delete_prefix(World(trie, links), store, k, counter))
    /\ UNCHANGED <<iters, snaps>>

Iter(k) ==
    /\ steps < MaxSteps
    /\ Len(iters) < MaxIters
    /\ LET Returned(r) ==
               /\ Done(r.w, Call("iter", k, <<>>, r.res, None, None))
               /\ iters' = IF r.res = "some"
                           THEN Append(iters, Held(r.it, k, Len(trie.generation_roots)))
                           ELSE iters
       IN  Returned(iter(World(trie, links), store, k))
    /\ UNCHANGED snaps

\* delete_iter for an iterator the caller holds; the iterator is passed by
\* reference, so the caller can pass it again
DeleteIter(i) ==
    /\ steps < MaxSteps
    /\ Done(delete_iter(World(trie, links), iters[i].it),
            Call("delete_iter", iters[i].prefix, <<>>, "ok", i, None))
    /\ iters' = [iters EXCEPT ![i].open = FALSE]
    /\ UNCHANGED snaps

NewGeneration ==
    /\ steps < MaxSteps
    /\ Done(new_generation(World(trie, links)),
            Call("new_generation", <<>>, <<>>, "ok", None, None))
    /\ snaps' = Append(SubSeq(snaps, 1, Len(trie.generation_roots) - 1),
                       [root |-> CurrentRoot(trie), content |-> Content(trie)])
    /\ UNCHANGED iters

\* pop_generation; the iterators opened in the popped generation go out of
\* use with it
PopGeneration ==
    /\ steps < MaxSteps
    /\ Len(trie.generation_roots) > 1
    /\ LET Returned(r) ==
               Done(r.w, Call("pop_generation", <<>>, <<>>,
                              IF r.some THEN "some" ELSE "none", None, None))
       IN  Returned(pop_generation(World(trie, links)))
    /\ iters' = [i \in 1..Len(iters) |->
                    IF iters[i].gen >= Len(trie.generation_roots)
                    THEN [iters[i] EXCEPT !.open = FALSE]
                    ELSE iters[i]]
    /\ UNCHANGED snaps

\* the counters a caller passes: EmptyCounter, or a budget of ticks
MaxTicks == 1

Counters == {EmptyCounter} \cup 0..MaxTicks

Next ==
    \/ \E k \in Keys, v \in Values : Insert(k, v)
    \/ \E k \in Keys : GetEntry(k)
    \/ \E k \in Keys : Delete(k)
    \/ \E k \in Keys, c \in Counters : DeletePrefix(k, c)
    \/ \E k \in Keys : Iter(k)
    \/ \E i \in 1..Len(iters) : DeleteIter(i)
    \/ NewGeneration
    \/ PopGeneration

Spec == Init /\ [][Next]_vars

(***************************************************************************)
(* The state machine of a persistent tree that is stored, loaded back and  *)
(* made mutable.                                                           *)
(***************************************************************************)
MaxStoreSteps == 4

StoreInit ==
    /\ \E S \in InitKeySets \ {{}} :
          LET Held1(f) ==
                  /\ links = f.links
                  /\ frozen = Tree(TRUE, f.root)
          IN  Held1(FrozenTree(S))
    /\ trie = EmptyTrie
    /\ store = <<>>
    /\ iters = <<>>
    /\ last = Call("new", <<>>, <<>>, "ok", None, None)
    /\ prev = trie
    /\ snaps = <<>>
    /\ steps = 0
    /\ cref = NoCell
    /\ handed = NotKept
    /\ threads = <<>>

\* the bookkeeping common to the calls on the persistent tree
StoreDone(call, panic) ==
    /\ last' = IF panic THEN [call EXCEPT !.res = "panic"] ELSE call
    /\ prev' = trie
    /\ steps' = steps + 1
    /\ UNCHANGED <<iters, snaps, cref, handed, threads>>

StoreUpdate ==
    /\ steps < MaxStoreSteps
    /\ LET Returned(r) ==
               /\ links' = r.links
               /\ store' = r.store
               /\ frozen' = [frozen EXCEPT !.stored = TRUE, !.bytes = r.buf]
               /\ StoreDone(Call("store_update", <<>>, r.buf, "ok", None, None),
                            r.panic)
       IN  Returned(store_update(links, store, frozen.root))
    /\ UNCHANGED trie

\* Hashed<Node<V>>::load on the bytes store_update returned
LoadRoot ==
    /\ steps < MaxStoreSteps
    /\ frozen.stored
    /\ LET Returned(l) ==
               /\ links' = l.links
               /\ frozen' = [frozen EXCEPT
                                !.loaded = [some |-> l.ok, root |-> l.node],
                                !.cached = FALSE]
               /\ StoreDone(Call("load", <<>>, <<>>, IF l.ok THEN "ok" ELSE "err",
                                 None, None), FALSE)
       IN  Returned(HashedNodeLoad(links, frozen.bytes))
    /\ UNCHANGED <<trie, store>>

\* Node::cache on the loaded root
Cache ==
    /\ steps < MaxStoreSteps
    /\ frozen.loaded.some
    /\ LET Returned(c) ==
               /\ links' = c.links
               /\ frozen' = [frozen EXCEPT !.cached = ~c.panic]
               /\ StoreDone(Call("cache", <<>>, <<>>, "ok", None, None), c.panic)
       IN  Returned(cache(links, store, frozen.loaded.root.data))
    /\ UNCHANGED <<trie, store>>

\* make_mutable on the root held in memory
MakeMutableMemory ==
    /\ steps < MaxStoreSteps
    /\ trie' = make_mutable(links, frozen.root.data, 0)
    /\ frozen' = [frozen EXCEPT !.source = "memory"]
    /\ StoreDone(Call("make_mutable", <<>>, <<>>, "ok", None, None), FALSE)
    /\ UNCHANGED <<links, store>>

\* make_mutable on the loaded root
MakeMutableLoaded ==
    /\ steps < MaxStoreSteps
    /\ frozen.loaded.some
    /\ trie' = make_mutable(links, frozen.loaded.root.data, 0)
    /\ frozen' = [frozen EXCEPT !.source = IF frozen.cached THEN "cached" ELSE "disk"]
    /\ StoreDone(Call("make_mutable", <<>>, <<>>, "ok", None, None), FALSE)
    /\ UNCHANGED <<links, store>>

\* get_entry(k) and, for the entry found, with_entry
GetEntryValue(k) ==
    /\ steps < MaxStoreSteps
    /\ frozen.source # "none"
    /\ LET Read(g, v) ==
               /\ trie' = TrieOf(g.w)
               /\ links' = g.w.links
               /\ StoreDone(Call("get_entry", k, v.value,
                                 IF v.some THEN "some" ELSE "none", g.res, None),
                            g.w.panic \/ v.panic)
           Got(g) ==
               IF g.res = None \/ g.w.panic
               THEN Read(g, [some |-> FALSE, value |-> <<>>, panic |-> FALSE])
               ELSE Read(g, with_entry(g.w, g.res, store))
       IN  Got(get_entry(World(trie, links), store, k))
    /\ UNCHANGED <<store, frozen>>

StoreNext ==
    \/ StoreUpdate
    \/ LoadRoot
    \/ Cache
    \/ MakeMutableMemory
    \/ MakeMutableLoaded
    \/ \E k \in Keys : GetEntryValue(k)

SpecStore == StoreInit /\ [][StoreNext]_vars

(***************************************************************************)
(* Node::lookup and the written-out form of a persistent tree              *)
(***************************************************************************)
RECURSIVE lookup_loop(_, _, _, _, _, _)
\* the loop of Node::lookup over path, children and value of the node it is
\* at: [some, link, links, panic], link the value link returned
lookup_loop(lnk, loader, key_iter, path, children, value) ==
    LET f == follow_stem(key_iter, path)
        no == [some |-> FALSE, link |-> None, links |-> lnk, panic |-> FALSE]
        \* children.iter().find(|&&(ck, _)| ck == key_step)
        found == {i \in 1..Len(children) : children[i].key = f.key_step}
        first == CHOOSE i \in found : \A j \in found : i <= j
        Into(lnk1, node) ==
            lookup_loop(lnk1, loader, f.key_iter, node.data.path,
                        node.data.children, node.data.value)
        \* use_value of a Disk cell: Hashed<Node<V>>::load_from_location
        Loaded(l) == IF l.ok THEN Into(l.links, l.node) ELSE [no EXCEPT !.panic = TRUE]
        Raw(raw) ==
            IF raw.ok THEN Loaded(HashedNodeLoad(lnk, raw.data))
            ELSE [no EXCEPT !.panic = TRUE]
        Child(cell) ==
            IF cell.tag = "Disk" THEN Raw(load_raw(loader, cell.key))
            ELSE Into(lnk, cell.value)
    IN  IF f.tag = "Equal"
        THEN [some |-> value # None, link |-> value, links |-> lnk, panic |-> FALSE]
        ELSE IF f.tag = "StemIsPrefix" /\ found # {}
        THEN Child(At(lnk, children[first].link))
        ELSE no

\* Node::lookup
lookup(lnk, loader, self, key) ==
    lookup_loop(lnk, loader, key, self.path, self.children, self.value)

\* the bytes of the value Node::lookup finds for key in the tree of root
\* self: [some, value]
LookupValue(lnk, loader, self, key) ==
    LET Read(l, v) == [some |-> v.ok, value |-> v.data]
        Found(l) ==
            IF l.some
            THEN Read(l, use_value(At(l.links, l.link).data, loader))
            ELSE [some |-> FALSE, value |-> <<>>]
    IN  Found(lookup(lnk, loader, self, key))

RECURSIVE TreeView(_, _, _)
\* a Hashed<Node<V>> written out without its cells: the hash, the stem, the
\* value slot (hash and bytes) and, for every child in order, the key byte
\* and the child written out the same way; a Disk cell is read from the
\* loader
TreeView(lnk, loader, hashed) ==
    LET Loaded(l) == IF l.ok THEN <<TreeView(l.links, loader, l.node)>> ELSE <<>>
        Raw(raw) == IF raw.ok THEN Loaded(HashedNodeLoad(lnk, raw.data)) ELSE <<>>
        ChildView(cell) ==
            IF cell.tag = "Disk" THEN Raw(load_raw(loader, cell.key))
            ELSE <<TreeView(lnk, loader, cell.value)>>
        ValueView(cell) ==
            <<[hash |-> cell.hash, value |-> use_value(cell.data, loader)]>>
    IN  [hash |-> hashed.hash,
         path |-> hashed.data.path,
         value |-> IF hashed.data.value = None THEN <<>>
                   ELSE ValueView(At(lnk, hashed.data.value)),
         children |->
            [i \in 1..Len(hashed.data.children) |->
                [key |-> hashed.data.children[i].key,
                 child |-> ChildView(At(lnk, hashed.data.children[i].link))]]]

(***************************************************************************)
(* MutableTrie::freeze as a call, and the tries built from the empty trie  *)
(***************************************************************************)
\* freeze takes the trie by value: it is the last call on the trie.  The
\* tree returned is kept in frozen.
Freeze ==
    /\ last.op # "freeze"
    /\ LET Returned(r) ==
               /\ frozen' = Tree(r.some, r.root)
               /\ links' = r.links
               /\ last' = Call("freeze", <<>>, <<>>,
                               IF r.panic THEN "panic"
                               ELSE IF r.some THEN "some" ELSE "none", None, None)
       IN  Returned(freeze(World(trie, links), store))
    /\ prev' = trie
    /\ steps' = MaxSteps
    /\ UNCHANGED <<trie, store, iters, snaps, cref, handed, threads>>

RECURSIVE InsertMap(_, _, _)
\* the trie after inserting the keys of the set S with the values of the
\* map content, shorter keys first
InsertMap(w, S, content) ==
    IF S = {} THEN w
    ELSE LET k == CHOOSE x \in S : \A y \in S : Len(x) <= Len(y)
         IN  InsertMap(insert(w, <<>>, k, content[k].val).w, S \ {k}, content)

\* the tree frozen from the trie that is built from the empty trie by
\* inserting the keys of content and nothing else
FrozenMap(content) ==
    freeze(InsertMap(World(EmptyTrie, <<>>), {k \in Keys : content[k].has}, content),
           <<>>)

\* A trie built from MutableTrie::empty by inserts.
BuildInit ==
    /\ \E S \in InitKeySets : trie = TrieOf(InsertAll(World(EmptyTrie, <<>>), S))
    /\ links = <<>>
    /\ frozen = NoTree
    /\ store = <<>>
    /\ iters = <<>>
    /\ last = Call("new", <<>>, <<>>, "ok", None, None)
    /\ prev = trie
    /\ snaps = <<>>
    /\ steps = 0
    /\ cref = NoCell
    /\ handed = NotKept
    /\ threads = <<>>

BuildNext ==
    \/ \E k \in Keys, v \in Values : Insert(k, v)
    \/ \E k \in Keys : Delete(k)
    \/ \E k \in Keys : DeletePrefix(k, EmptyCounter)
    \/ Freeze

SpecBuild == BuildInit /\ [][BuildNext]_vars

\* The mutating calls on a trie that was thawed from a persistent tree or
\* is empty, ended by freeze.
FreezeNext ==
    \/ \E k \in Keys, v \in Values : Insert(k, v)
    \/ \E k \in Keys : Delete(k)
    \/ \E k \in Keys, c \in Counters : DeletePrefix(k, c)
    \/ NewGeneration
    \/ Freeze

SpecFreeze == Init /\ [][FreezeNext]_vars

(***************************************************************************)
(* Hashed<Node<V>>::serialize and deserialize                              *)
(***************************************************************************)
\* an offset that attaches every node to the root
parent_offset_to_root(node_counter, idx) == node_counter

\* what serialize writes for the parent of a node: node_counter - idx, idx
\* the counter of the parent
ParentOffset(node_counter, idx) == node_counter - idx

RECURSIVE SerializeChildren(_, _, _, _, _, _)
\* the loop of serialize over the children of a node: the key byte is
\* written and the child, read through use_value, is queued with
\* parent_idx.  [links, queue, out, panic]
SerializeChildren(lnk, loader, children, parent_idx, queue, out) ==
    IF children = <<>>
    THEN [links |-> lnk, queue |-> queue, out |-> out, panic |-> FALSE]
    ELSE LET key == Head(children).key
             failed == [links |-> lnk, queue |-> queue, out |-> out, panic |-> TRUE]
             Queued(lnk1, nd) ==
                 SerializeChildren(lnk1, loader, Tail(children), parent_idx,
                     Append(queue, [node |-> nd, idx |-> parent_idx]),
                     out \o <<key>>)
             Loaded(l) == IF l.ok THEN Queued(l.links, l.node) ELSE failed
             Raw(raw) ==
                 IF raw.ok THEN Loaded(HashedNodeLoad(lnk, raw.data)) ELSE failed
             Child(cell) ==
                 IF cell.tag = "Disk" THEN Raw(load_raw(loader, cell.key))
                 ELSE Queued(lnk, cell.value)
         IN  Child(At(lnk, Head(children).link))

RECURSIVE serialize_loop(_, _, _, _, _)
\* the loop of serialize over the queue: [links, out, panic]
serialize_loop(lnk, loader, queue, node_counter, out) ==
    IF queue = <<>> THEN [links |-> lnk, out |-> out, panic |-> FALSE]
    ELSE LET item == Head(queue)
             node == item.node.data
             stem_len == Len(node.path)
             value_mask == IF node.value = None THEN 0 ELSE 64
             tag == IF stem_len <= INLINE_STEM_LENGTH
                    THEN <<stem_len + value_mask>>
                    ELSE <<128 + value_mask>> \o BigEndian(stem_len, 4)
             out1 == out \o BigEndian(ParentOffset(node_counter, item.idx), 4)
                         \o item.node.hash \o tag \o node.path
             Written(c) ==
                 IF c.panic THEN [links |-> c.links, out |-> c.out, panic |-> TRUE]
                 ELSE serialize_loop(c.links, loader, c.queue, node_counter + 1, c.out)
             WithValue(out2) ==
                 Written(SerializeChildren(lnk, loader, node.children, node_counter,
                             Tail(queue),
                             out2 \o BigEndian(Len(node.children), 2)))
             Valued(cell, v) ==
                 IF v.ok
                 THEN WithValue(out1 \o cell.hash \o BigEndian(Len(v.data), 4)
                                     \o v.data)
                 ELSE [links |-> lnk, out |-> out1, panic |-> TRUE]
             Value(cell) == Valued(cell, use_value(cell.data, loader))
         IN  IF node.value # None THEN Value(At(lnk, node.value))
             ELSE WithValue(out1)

\* Hashed<Node<V>>::serialize: [links, out, panic]
serialize(lnk, loader, self) ==
    serialize_loop(lnk, loader, <<[node |-> self, idx |-> 0]>>, 0, <<>>)

RECURSIVE ReadKeys(_, _, _)
\* for _ in 0..num_children { todo.push_back(source.read_u8()?) }
\* [ok, todo, source]
ReadKeys(source, n, todo) ==
    IF n = 0 THEN [ok |-> TRUE, todo |-> todo, source |-> source]
    ELSE LET Key(key) ==
                 IF key.ok THEN ReadKeys(key.source, n - 1, Append(todo, key.val))
                 ELSE [ok |-> FALSE, todo |-> todo, source |-> source]
         IN  Key(ReadUint(source, 1))

RECURSIVE deserialize_loop(_, _, _, _)
\* the loop of deserialize over todo: [ok, links, parents, panic]
deserialize_loop(lnk, source, todo, parents) ==
    IF todo = <<>>
    THEN [ok |-> TRUE, links |-> lnk, parents |-> parents, panic |-> FALSE]
    ELSE LET key == Head(todo)
             err == [ok |-> FALSE, links |-> lnk, parents |-> parents, panic |-> FALSE]
             \* the node is put behind a new link, pushed on its parent's
             \* children and on parents
             Keys1(lnk2, new_node, keys) ==
                 IF ~keys.ok THEN err
                 ELSE deserialize_loop(lnk2, keys.source, keys.todo,
                                       Append(parents, new_node))
             Attached(idx, lnk1, new_node, num_children) ==
                 IF idx.val > 0
                 THEN IF idx.val > Len(parents)
                      THEN \* parents[parents.len() - idx]
                           [err EXCEPT !.panic = TRUE]
                      ELSE LET parent == At(parents, Len(parents) - idx.val)
                               cell == At(lnk1, parent)
                           IN  Keys1(SetAt(lnk1, parent,
                                       Memory(Hashed(cell.value.hash,
                                           [cell.value.data EXCEPT !.children =
                                               Append(cell.value.data.children,
                                                   [key |-> key, link |-> new_node])]))),
                                     new_node,
                                     ReadKeys(num_children.source, num_children.val,
                                              Tail(todo)))
                 ELSE Keys1(lnk1, new_node,
                            ReadKeys(num_children.source, num_children.val,
                                     Tail(todo)))
             WithNumChildren(idx, hash, path, value, lnk1, num_children) ==
                 IF ~num_children.ok THEN err
                 ELSE Attached(idx,
                          Append(lnk1, Memory(Hashed(hash.val,
                                                     Node(value, path.val, <<>>)))),
                          Len(lnk1), num_children)
             WithVal(idx, hash, path, value_hash, val) ==
                 IF ~val.ok THEN err
                 ELSE WithNumChildren(idx, hash, path, Len(lnk),
                          Append(lnk, Hashed(value_hash.val, Memory(val.val))),
                          ReadUint(val.source, 2))
             WithValueLen(idx, hash, path, value_hash, value_len) ==
                 IF ~value_len.ok THEN err
                 ELSE WithVal(idx, hash, path, value_hash,
                              ReadExact(value_len.source, value_len.val))
             WithValueHash(idx, hash, path, value_hash) ==
                 IF ~value_hash.ok THEN err
                 ELSE WithValueLen(idx, hash, path, value_hash,
                                   ReadUint(value_hash.source, 4))
             WithPath(idx, hash, tag, path) ==
                 IF ~path.ok THEN err
                 ELSE IF (tag.val \div 64) % 2 = 1
                 THEN WithValueHash(idx, hash, path, ReadExact(path.source, HashLen))
                 ELSE WithNumChildren(idx, hash, path, None, lnk,
                                      ReadUint(path.source, 2))
             WithPathLen(idx, hash, tag, path_len) ==
                 IF ~path_len.ok THEN err
                 ELSE WithPath(idx, hash, tag,
                               ReadExact(path_len.source, path_len.val))
             WithTag(idx, hash, tag) ==
                 IF ~tag.ok THEN err
                 ELSE IF tag.val < 128
                 THEN WithPath(idx, hash, tag, ReadExact(tag.source, tag.val % 64))
                 ELSE WithPathLen(idx, hash, tag, ReadUint(tag.source, 4))
             WithHash(idx, hash) ==
                 IF ~hash.ok THEN err ELSE WithTag(idx, hash, ReadUint(hash.source, 1))
             WithIdx(idx) ==
                 IF ~idx.ok THEN err ELSE WithHash(idx, ReadExact(idx.source, HashLen))
         IN  WithIdx(ReadUint(source, 4))

\* Hashed<Node<V>>::deserialize: [ok, root, links, panic]
deserialize(lnk, source) ==
    LET Rooted(r) ==
            IF r.ok /\ ~r.panic
            THEN [ok |-> TRUE, root |-> At(r.links, At(r.parents, 0)).value,
                  links |-> r.links, panic |-> FALSE]
            ELSE [ok |-> FALSE, root |-> NoRoot, links |-> r.links, panic |-> r.panic]
    IN  Rooted(deserialize_loop(lnk, source, <<0>>, <<>>))

\* the number of keys of the persistent trees that are serialized and
\* iterated
MaxTreeKeys == 3

TreeKeySets == {S \in SUBSET Keys : Cardinality(S) \in 1..MaxTreeKeys}

\* a key whose stem is too long for the tag byte
LongKey == [i \in 1..(INLINE_STEM_LENGTH + 1) |-> 1]

SerialInit ==
    /\ \E S \in TreeKeySets \cup {{LongKey}, {LongKey, <<1>>}} :
          LET Held1(f) ==
                  /\ links = f.links
                  /\ frozen = Tree(TRUE, f.root)
          IN  Held1(FrozenTree(S))
    /\ trie = EmptyTrie
    /\ store = <<>>
    /\ iters = <<>>
    /\ last = Call("new", <<>>, <<>>, "ok", None, None)
    /\ prev = trie
    /\ snaps = <<>>
    /\ steps = 0
    /\ cref = NoCell
    /\ handed = NotKept
    /\ threads = <<>>

\* the root the caller passes to serialize: the one in memory or the one
\* loaded from the bytes of store_update
RootOf(which) == IF which = "memory" THEN frozen.root ELSE frozen.loaded.root

\* serialize on one of the two roots; the bytes written are kept in
\* frozen.image
Serialize(which) ==
    /\ steps < MaxStoreSteps
    /\ which = "loaded" => frozen.loaded.some
    /\ LET Returned(r) ==
               /\ links' = r.links
               /\ frozen' = [frozen EXCEPT !.image = r.out, !.imaged = which]
               /\ StoreDone(Call("serialize", <<>>, r.out, "ok", None, None), r.panic)
       IN  Returned(serialize(links, store, RootOf(which)))
    /\ UNCHANGED <<trie, store>>

\* deserialize on the bytes serialize wrote
Deserialize ==
    /\ steps < MaxStoreSteps
    /\ frozen.imaged # "none"
    /\ LET Returned(r) ==
               /\ links' = r.links
               /\ frozen' = [frozen EXCEPT !.restored = [some |-> r.ok, root |-> r.root]]
               /\ StoreDone(Call("deserialize", <<>>, <<>>,
                                 IF r.ok THEN "ok" ELSE "err", None, None), r.panic)
       IN  Returned(deserialize(links, frozen.image))
    /\ UNCHANGED <<trie, store>>

SerialNext ==
    \/ StoreUpdate
    \/ LoadRoot
    \/ Cache
    \/ \E which \in {"memory", "loaded"} : Serialize(which)
    \/ Deserialize

SpecSerial == SerialInit /\ [][SerialNext]_vars

(***************************************************************************)
(* MutableTrie::next                                                       *)
(***************************************************************************)
\* a position that leaves out the sibling after the child visited
next_position_skipping(next_child) == next_child + 2

\* the position pushed on the stack for the way back: next_child + 1
NextPosition(next_child) == next_child + 1

RECURSIVE next_loop(_, _, _)
\* the loop of MutableTrie::next: [w, it, res], res an entry id or None
next_loop(w, loader, it) ==
    LET node_idx == it.current_node
        node == At(w.nodes, node_idx)
        next_child == IF it.next_child = None THEN 0 ELSE it.next_child
        \* we have to visit this child
        Visit(m) ==
            IF m.w.panic THEN [w |-> m.w, it |-> it, res |-> None]
            ELSE LET child == At(m.children, next_child)
                 IN  next_loop(m.w, loader,
                         Iterator(it.root, child.index,
                                  it.key \o <<child.key>>
                                         \o At(m.w.nodes, child.index).path,
                                  None,
                                  Append(it.stack,
                                         [parent_idx |-> node_idx,
                                          next_child |-> NextPosition(next_child),
                                          key_len |-> Len(it.key)])))
    IN  IF node_idx >= Len(w.nodes)
        THEN \* owned_nodes[node_idx]
             [w |-> [w EXCEPT !.panic = TRUE], it |-> it, res |-> None]
        ELSE IF it.next_child = None /\ node.value # None
        THEN [w |-> w, it |-> [it EXCEPT !.next_child = 0], res |-> node.value]
        ELSE IF next_child < ChildrenLen(node.children)
        THEN Visit(make_owned(w, node_idx, loader))
        ELSE IF it.stack # <<>>
        THEN \* pop back up
             next_loop(w, loader,
                 Iterator(it.root, LastOf(it.stack).parent_idx,
                          Truncate(it.key, LastOf(it.stack).key_len),
                          LastOf(it.stack).next_child, Pop(it.stack)))
        ELSE \* we are done
             [w |-> w, it |-> [it EXCEPT !.next_child = next_child], res |-> None]

\* a next that walks as next does and leaves the key buffer as it was
next_keeping_key(w, loader, iterator) ==
    LET Walked(r) == [r EXCEPT !.it.key = iterator.key]
    IN  Walked(next_loop(w, loader, iterator))

\* MutableTrie::next
next(w, loader, iterator) == next_loop(w, loader, iterator)

\* the number of next calls on one iterator
MaxNexts == 5

\* next on an iterator the caller holds; what it returned is kept in got
NextEntry(i) ==
    /\ iters[i].open
    /\ last.op # "freeze"
    /\ Len(iters[i].got) < MaxNexts
    /\ LET Returned(r) ==
               /\ Done(r.w, Call("next", iters[i].prefix, <<>>,
                                 IF r.res = None THEN "none" ELSE "some", r.res, i))
               /\ iters' = [iters EXCEPT ![i].it = r.it,
                                         ![i].got = Append(iters[i].got, r.res)]
       IN  Returned(next(World(trie, links), store, iters[i].it))
    /\ UNCHANGED snaps

\* A trie made mutable from a persistent tree, or built by inserts, that is
\* only iterated.
IterInit ==
    /\ \E S \in TreeKeySets, thawed \in BOOLEAN :
          IF thawed
          THEN LET Thawed(f) ==
                       /\ trie = make_mutable(f.links, f.root.data, 0)
                       /\ links = f.links
                       /\ frozen = Tree(TRUE, f.root)
               IN  Thawed(FrozenTree(S))
          ELSE /\ trie = TrieOf(InsertAll(World(EmptyTrie, <<>>), S))
               /\ links = <<>>
               /\ frozen = NoTree
    /\ store = <<>>
    /\ iters = <<>>
    /\ last = Call("new", <<>>, <<>>, "ok", None, None)
    /\ prev = trie
    /\ snaps = <<>>
    /\ steps = 0
    /\ cref = NoCell
    /\ handed = NotKept
    /\ threads = <<>>

IterNext ==
    \/ \E k \in Keys : Iter(k)
    \/ \E i \in 1..Len(iters) : NextEntry(i)

SpecIter == IterInit /\ [][IterNext]_vars

(***************************************************************************)
(* One CachedRef<Vec<u8>> cell and the calls on it.  cell holds the cell   *)
(* (data), the cell before the last call (was), and the number of load_raw *)
(* and store_raw calls the last call made.                                 *)
(***************************************************************************)
\* a store_and_cache that writes the value whatever the cell is
store_and_cache_always(self, backing_store, buf) ==
    [data |-> Cached(Len(backing_store), self.value),
     store |-> store_raw(backing_store, self.value).store,
     buf |-> buf \o ReferenceStore(Len(backing_store)), stores |-> 1]

\* CachedRef::get: [ok, value, loads]
CellGet(self, loader) ==
    LET Read(r) == [ok |-> r.ok, value |-> r.data, loads |-> 1]
    IN  IF self.tag = "Disk" THEN Read(load_raw(loader, self.key))
        ELSE [ok |-> TRUE, value |-> self.value, loads |-> 0]

\* CachedRef::use_value with f the identity: [ok, value, loads]
CellUseValue(self, loader) ==
    LET Read(r) == [ok |-> r.ok, value |-> r.data, loads |-> 1]
    IN  IF self.tag = "Disk" THEN Read(load_raw(loader, self.key))
        ELSE [ok |-> TRUE, value |-> self.value, loads |-> 0]

\* CachedRef::load_and_cache: [ok, data, loads]
CellLoadAndCache(self, loader) ==
    LET Read(r) ==
            [ok |-> r.ok,
             data |-> IF r.ok THEN Cached(self.key, r.data) ELSE self,
             loads |-> 1]
    IN  IF self.tag = "Disk" THEN Read(load_raw(loader, self.key))
        ELSE [ok |-> TRUE, data |-> self, loads |-> 0]

\* CachedRef::cache_with
CellCacheWith(self, key) ==
    IF self.tag = "Memory" THEN Cached(key, self.value) ELSE self

\* CachedRef::store_and_cache: [data, store, buf, stores]
CellStoreAndCache(self, backing_store, buf) ==
    LET Stored(r) ==
            [data |-> Cached(r.key, self.value), store |-> r.store,
             buf |-> buf \o ReferenceStore(r.key), stores |-> 1]
    IN  IF self.tag = "Memory" THEN Stored(store_raw(backing_store, self.value))
        ELSE [data |-> self, store |-> backing_store,
              buf |-> buf \o ReferenceStore(self.key), stores |-> 0]

\* the values of the cells
CellValues == Keys

RECURSIVE StoreAll(_, _)
\* a backing store that holds the values of S
StoreAll(backing_store, S) ==
    IF S = {} THEN backing_store
    ELSE LET v == CHOOSE x \in S : TRUE
         IN  StoreAll(store_raw(backing_store, v).store, S \ {v})

\* the references under which the store holds a value
References(backing_store) ==
    {key \in 0..Len(backing_store) : load_raw(backing_store, key).ok}

\* the number of calls on one cell
MaxCellSteps == 3

\* A cell is constructed by CachedRef::new (Memory) or loaded as a
\* reference (Disk) into a store that holds values.
CellInit ==
    /\ store = StoreAll(<<>>, CellValues)
    /\ \E data \in {Memory(v) : v \in CellValues}
                   \cup {Disk(key) : key \in References(StoreAll(<<>>, CellValues))} :
          cref = [data |-> data, was |-> data, loads |-> 0, stores |-> 0]
    /\ handed = NotKept
    /\ threads = <<>>
    /\ trie = EmptyTrie
    /\ links = <<>>
    /\ frozen = NoTree
    /\ iters = <<>>
    /\ last = Call("new", <<>>, <<>>, "ok", None, None)
    /\ prev = trie
    /\ snaps = <<>>
    /\ steps = 0

\* the bookkeeping common to the calls on the cell
CellDone(call, ok, data, loads, stores) ==
    /\ cref' = [data |-> data, was |-> cref.data, loads |-> loads, stores |-> stores]
    /\ last' = IF ok THEN call ELSE [call EXCEPT !.res = "panic"]
    /\ steps' = steps + 1
    /\ UNCHANGED <<trie, links, frozen, iters, prev, snaps, handed, threads>>

Get ==
    /\ steps < MaxCellSteps
    /\ LET Returned(r) ==
               CellDone(Call("get", <<>>, r.value, "ok", None, None), r.ok,
                        cref.data, r.loads, 0)
       IN  Returned(CellGet(cref.data, store))
    /\ UNCHANGED store

UseValue ==
    /\ steps < MaxCellSteps
    /\ LET Returned(r) ==
               CellDone(Call("use_value", <<>>, r.value, "ok", None, None), r.ok,
                        cref.data, r.loads, 0)
       IN  Returned(CellUseValue(cref.data, store))
    /\ UNCHANGED store

LoadAndCache ==
    /\ steps < MaxCellSteps
    /\ LET Returned(r) ==
               CellDone(Call("load_and_cache", <<>>, r.data.value, "ok", None, None),
                        r.ok, r.data, r.loads, 0)
       IN  Returned(CellLoadAndCache(cref.data, store))
    /\ UNCHANGED store

\* cache_with, called with a key under which the store holds the value
CacheWith(key) ==
    /\ steps < MaxCellSteps
    /\ cref.data.tag # "Disk" => load_raw(store, key).data = cref.data.value
    /\ CellDone(Call("cache_with", <<>>, <<>>, "ok", key, None), TRUE,
                CellCacheWith(cref.data, key), 0, 0)
    /\ UNCHANGED store

StoreAndCache ==
    /\ steps < MaxCellSteps
    /\ LET Returned(r) ==
               /\ CellDone(Call("store_and_cache", <<>>, r.buf, "ok", None, None),
                           TRUE, r.data, 0, r.stores)
               /\ store' = r.store
       IN  Returned(CellStoreAndCache(cref.data, store, <<>>))

CellNext ==
    \/ Get
    \/ UseValue
    \/ LoadAndCache
    \/ \E key \in References(store) : CacheWith(key)
    \/ StoreAndCache

SpecCell == CellInit /\ [][CellNext]_vars

(***************************************************************************)
(* A trie one of whose nodes many iterators lock.                          *)
(***************************************************************************)
\* the trie after iter(key) was called n times, n > 0: the first call owns
\* the path and locks the node, each further one adds 1 to its counter
IterTimes(w, loader, key, n) ==
    LET Locked(r) ==
            IF r.res # "some" THEN r.w
            ELSE [r.w EXCEPT !.nodes[r.it.root + 1].locked = n]
    IN  Locked(iter(w, loader, key))

\* The trie is thawed from a persistent tree, a generation is started or
\* not, and iter was called U16Max - 1 times with one prefix.
LockInit ==
    /\ store = <<>>
    /\ \E S \in InitKeySets \ {{}}, k \in Keys, fresh \in BOOLEAN :
          LET Thawed(f) ==
                  LET t == make_mutable(f.links, f.root.data, 0)
                      Locked(w) ==
                          /\ trie = TrieOf(w)
                          /\ links = w.links
                          /\ frozen = Tree(TRUE, f.root)
                          /\ snaps = IF fresh
                                     THEN <<[root |-> CurrentRoot(t), content |-> Content(t)]>>
                                     ELSE <<>>
                      Started(w) == IF fresh THEN new_generation(w) ELSE w
                  IN  Locked(IterTimes(Started(World(t, f.links)), <<>>, k, U16Max - 1))
          IN  Thawed(FrozenTree(S))
    /\ iters = <<>>
    /\ last = Call("new", <<>>, <<>>, "ok", None, None)
    /\ prev = trie
    /\ steps = 0
    /\ cref = NoCell
    /\ handed = NotKept
    /\ threads = <<>>

LockNext ==
    \/ \E k \in Keys : Iter(k)
    \/ \E i \in 1..Len(iters) : DeleteIter(i)
    \/ NewGeneration

SpecLock == LockInit /\ [][LockNext]_vars

(***************************************************************************)
(* Generations: new_generation, pop_generation, normalize, with the        *)
(* mutating calls in between.                                              *)
(***************************************************************************)
\* a normalize that keeps one generation less
normalize_one_less(w, root) ==
    LET new_len == root
    IN  IF new_len >= 1 /\ new_len < Len(w.generation_roots)
        THEN TruncateTo([w EXCEPT !.generation_roots = Truncate(w.generation_roots, new_len)],
                        w.generation_roots[new_len + 1].cp)
        ELSE w

\* MutableTrie::normalize
normalize(w, root) ==
    LET new_len == root + 1
    IN  IF new_len < Len(w.generation_roots)
        THEN TruncateTo([w EXCEPT !.generation_roots = Truncate(w.generation_roots, new_len)],
                        w.generation_roots[new_len + 1].cp)
        ELSE w

RECURSIVE PopUntil(_, _)
\* pop_generation, called until generation root is the latest
PopUntil(w, root) ==
    IF Len(w.generation_roots) > root + 1
    THEN PopUntil(pop_generation(w).w, root)
    ELSE w

\* the generations a caller names
MaxGeneration == 3

\* normalize; the iterators opened in the dropped generations go out of use
Normalize(root) ==
    /\ steps < MaxSteps
    /\ Done(normalize(World(trie, links), root),
            Call("normalize", <<>>, <<>>, "ok", root, None))
    /\ iters' = [i \in 1..Len(iters) |->
                    IF iters[i].gen > root + 1
                    THEN [iters[i] EXCEPT !.open = FALSE]
                    ELSE iters[i]]
    /\ snaps' = Truncate(snaps, root)

\* pop_generation, called when no generation was started
PopLastGeneration ==
    /\ steps < MaxSteps
    /\ Len(trie.generation_roots) <= 1
    /\ LET Returned(r) ==
               Done(r.w, Call("pop_generation", <<>>, <<>>,
                              IF r.some THEN "some" ELSE "none", None, None))
       IN  Returned(pop_generation(World(trie, links)))
    /\ iters' = [i \in 1..Len(iters) |-> [iters[i] EXCEPT !.open = FALSE]]
    /\ UNCHANGED snaps

GenNext ==
    \/ \E k \in Keys, v \in Values : Insert(k, v)
    \/ \E k \in Keys : Delete(k)
    \/ \E k \in Keys : DeletePrefix(k, EmptyCounter)
    \/ NewGeneration
    \/ PopGeneration
    \/ PopLastGeneration
    \/ \E root \in 0..MaxGeneration : Normalize(root)

SpecGen == Init /\ [][GenNext]_vars

(***************************************************************************)
(* A MutableTrie next to the persistent tree it was made mutable from:     *)
(* get_mut, set and the other calls on the trie, while the caller keeps    *)
(* the tree.                                                               *)
(***************************************************************************)
\* a get_mut that takes a borrowed value out of its cell instead of cloning
get_mut_taking(w, entry, loader) ==
    LET e == At(w.entries, entry)
        link == At(w.borrowed_values, e.entry_idx)
        cell == At(w.links, link)
    IN  IF e.tag = "ReadOnly" /\ e.borrowed
        THEN [w |-> [w EXCEPT !.values = Append(w.values, use_value(cell.data, loader).data),
                              !.entries = SetAt(w.entries, entry, Mutable(Len(w.values))),
                              !.links = SetAt(w.links, link,
                                              [cell EXCEPT !.data = Memory(<<>>)])],
              ref |-> Len(w.values)]
        ELSE [w |-> w, ref |-> None]

\* MutableTrie::get_mut: [w, ref], ref the index in values of the value the
\* returned reference points to, None for None; an index out of bounds
\* panics
get_mut(w, entry, loader) ==
    LET e == At(w.entries, entry)
        value_idx == Len(w.values)
        failed == [w |-> [w EXCEPT !.panic = TRUE], ref |-> None]
        Pushed(v) ==
            [w |-> [w EXCEPT !.values = Append(w.values, v.data),
                             !.entries = SetAt(w.entries, entry, Mutable(value_idx)),
                             !.panic = ~v.ok],
             ref |-> value_idx]
    IN  IF entry < 0 \/ entry >= Len(w.entries) THEN failed
        ELSE IF e.tag = "ReadOnly"
        THEN IF e.borrowed
             THEN IF e.entry_idx >= Len(w.borrowed_values) THEN failed
                  ELSE Pushed(use_value(At(w.links,
                                           At(w.borrowed_values, e.entry_idx)).data,
                                        loader))
             ELSE IF e.entry_idx >= Len(w.values) THEN failed
                  ELSE Pushed([ok |-> TRUE, data |-> At(w.values, e.entry_idx)])
        ELSE IF e.tag = "Mutable"
        THEN [w |-> w, ref |-> IF e.entry_idx < Len(w.values) THEN e.entry_idx ELSE None]
        ELSE [w |-> w, ref |-> None]

\* a set that overwrites the value a read-only entry refers to in the values
\* table instead of pushing the new value
set_in_place(w, entry, new_value) ==
    LET e == At(w.entries, entry)
        value_idx == Len(w.values)
    IN  IF entry < 0 \/ entry >= Len(w.entries)
        THEN [w |-> [w EXCEPT !.panic = TRUE], ref |-> None]
        ELSE IF e.tag = "ReadOnly" /\ e.borrowed
        THEN [w |-> [w EXCEPT !.values = Append(w.values, new_value),
                              !.entries = SetAt(w.entries, entry, Mutable(value_idx))],
              ref |-> value_idx]
        ELSE IF e.tag \in {"ReadOnly", "Mutable"} /\ e.entry_idx < Len(w.values)
        THEN [w |-> [w EXCEPT !.values = SetAt(w.values, e.entry_idx, new_value),
                              !.entries = SetAt(w.entries, entry, Mutable(e.entry_idx))],
              ref |-> e.entry_idx]
        ELSE [w |-> w, ref |-> None]

\* MutableTrie::set: [w, ref]; an index out of bounds panics
set(w, entry, new_value) ==
    LET e == At(w.entries, entry)
        value_idx == Len(w.values)
        failed == [w |-> [w EXCEPT !.panic = TRUE], ref |-> None]
    IN  IF entry < 0 \/ entry >= Len(w.entries) THEN failed
        ELSE IF e.tag = "ReadOnly"
        THEN [w |-> [w EXCEPT !.values = Append(w.values, new_value),
                              !.entries = SetAt(w.entries, entry, Mutable(value_idx))],
              ref |-> value_idx]
        ELSE IF e.tag = "Mutable"
        THEN IF e.entry_idx >= Len(w.values) THEN failed
             ELSE [w |-> [w EXCEPT !.values = SetAt(w.values, e.entry_idx, new_value)],
                   ref |-> e.entry_idx]
        ELSE [w |-> w, ref |-> None]

\* get_entry(k), get_mut of the entry found, and a write of v through the
\* reference returned
GetMut(k, v) ==
    /\ steps < MaxSteps
    /\ LET Written(r) ==
               Done(IF r.ref = None \/ r.w.panic THEN r.w
                    ELSE [r.w EXCEPT !.values = SetAt(r.w.values, r.ref, v)],
                    Call("get_mut", k, v, IF r.ref = None THEN "none" ELSE "some",
                         r.ref, None))
           Got(g) ==
               IF g.res = None \/ g.w.panic
               THEN Done(g.w, Call("get_mut", k, v, "none", None, None))
               ELSE Written(get_mut(g.w, g.res, store))
       IN  Got(get_entry(World(trie, links), store, k))
    /\ UNCHANGED <<iters, snaps>>

\* get_entry(k) and set of the entry found
Set(k, v) ==
    /\ steps < MaxSteps
    /\ LET Written(r) ==
               Done(r.w, Call("set", k, v, IF r.ref = None THEN "none" ELSE "some",
                              r.ref, None))
           Got(g) ==
               IF g.res = None \/ g.w.panic
               THEN Done(g.w, Call("set", k, v, "none", None, None))
               ELSE Written(set(g.w, g.res, v))
       IN  Got(get_entry(World(trie, links), store, k))
    /\ UNCHANGED <<iters, snaps>>

\* freeze of the trie; the caller keeps the tree the trie was made mutable
\* from, which stays in frozen
FreezeThawed ==
    /\ last.op # "freeze"
    /\ LET Returned(r) ==
               /\ links' = r.links
               /\ last' = Call("freeze", <<>>, <<>>,
                               IF r.panic THEN "panic"
                               ELSE IF r.some THEN "some" ELSE "none", None, None)
       IN  Returned(freeze(World(trie, links), store))
    /\ prev' = trie
    /\ steps' = MaxSteps
    /\ UNCHANGED <<trie, store, frozen, iters, snaps, cref, handed, threads>>

\* A trie made mutable from a persistent tree that holds keys.
CowInit ==
    /\ Init
    /\ frozen.some

\* the longest key of the calls that are not get_mut or set
MaxCowKeyLen == 1

CowKeys == {k \in Keys : Len(k) <= MaxCowKeyLen}

CowNext ==
    \/ \E k \in CowKeys : GetEntry(k)
    \/ \E k \in Keys, v \in Values : GetMut(k, v)
    \/ \E k \in Keys, v \in Values : Set(k, v)
    \/ \E k \in CowKeys, v \in Values : Insert(k, v)
    \/ \E k \in CowKeys : Delete(k)
    \/ \E k \in CowKeys : DeletePrefix(k, EmptyCounter)
    \/ \E k \in CowKeys : Iter(k)
    \/ \E i \in 1..Len(iters) : steps < MaxSteps /\ NextEntry(i)
    \/ NewGeneration
    \/ FreezeThawed

SpecCow == CowInit /\ [][CowNext]_vars

(***************************************************************************)
(* Values written in a generation: insert, get_mut and set through the     *)
(* entry get_entry returns, new_generation and pop_generation.             *)
(***************************************************************************)
\* the values written through get_mut and set: none that insert writes and
\* none the persistent tree holds
WrittenValues == {<<MaxVal + 1>>}

ValueNext ==
    \/ \E k \in Keys, v \in Values : Insert(k, v)
    \/ \E k \in Keys, v \in WrittenValues : GetMut(k, v)
    \/ \E k \in Keys, v \in WrittenValues : Set(k, v)
    \/ NewGeneration
    \/ PopGeneration

SpecValues == Init /\ [][ValueNext]_vars

(***************************************************************************)
(* A MutableTrie and a caller that keeps the entry ids it was given and    *)
(* passes them to with_entry, get_mut and set, in the generation that      *)
(* returned them or in a later state.                                      *)
(***************************************************************************)
EntryInit ==
    /\ \E S \in InitKeySets :
          IF S = {}
          THEN /\ trie = EmptyTrie
               /\ links = <<>>
               /\ frozen = NoTree
          ELSE LET Thawed(f) ==
                       /\ trie = make_mutable(f.links, f.root.data, 0)
                       /\ links = f.links
                       /\ frozen = Tree(TRUE, f.root)
               IN  Thawed(FrozenTree(S))
    /\ store = <<>>
    /\ iters = <<>>
    /\ last = Call("new", <<>>, <<>>, "ok", None, None)
    /\ prev = trie
    /\ snaps = <<>>
    /\ steps = 0
    /\ cref = NoCell
    /\ handed = Kept({}, FALSE)
    /\ threads = <<>>

\* with_entry of an id the caller keeps
WithEntry(h) ==
    /\ steps < MaxSteps
    /\ LET Returned(r) ==
               Done([World(trie, links) EXCEPT !.panic = r.panic],
                    Call("with_entry", h.key, r.value,
                         IF r.some THEN "some" ELSE "none", h.e, None))
       IN  Returned(with_entry(World(trie, links), h.e, store))
    /\ UNCHANGED <<iters, snaps>>

\* get_mut of an id the caller keeps, and a write of v through the
\* reference returned
GetMutEntry(h, v) ==
    /\ steps < MaxSteps
    /\ LET Written(r) ==
               Done(IF r.ref = None \/ r.w.panic THEN r.w
                    ELSE [r.w EXCEPT !.values = SetAt(r.w.values, r.ref, v)],
                    Call("get_mut", h.key, v, IF r.ref = None THEN "none" ELSE "some",
                         h.e, None))
       IN  Written(get_mut(World(trie, links), h.e, store))
    /\ UNCHANGED <<iters, snaps>>

\* set of an id the caller keeps
SetEntry(h, v) ==
    /\ steps < MaxSteps
    /\ LET Written(r) ==
               Done(r.w, Call("set", h.key, v, IF r.ref = None THEN "none" ELSE "some",
                              h.e, None))
       IN  Written(set(World(trie, links), h.e, v))
    /\ UNCHANGED <<iters, snaps>>

EntryNext ==
    \/ \E k \in Keys, v \in Values : Insert(k, v)
    \/ \E k \in Keys : GetEntry(k)
    \/ \E k \in Keys : Delete(k)
    \/ \E k \in Keys : DeletePrefix(k, EmptyCounter)
    \/ NewGeneration
    \/ PopGeneration
    \/ \E h \in handed.ids : WithEntry(h)
    \/ \E h \in handed.ids, v \in Values : GetMutEntry(h, v)
    \/ \E h \in handed.ids, v \in Values : SetEntry(h, v)

SpecEntries == EntryInit /\ [][EntryNext]_vars

(***************************************************************************)
(* The arena under every public operation: the calls of a caller that      *)
(* keeps entry ids and iterators across new_generation, pop_generation     *)
(* and normalize.                                                          *)
(***************************************************************************)
ArenaNext ==
    \/ \E k \in CowKeys, v \in Values : Insert(k, v)
    \/ \E k \in Keys : GetEntry(k)
    \/ \E k \in CowKeys : Delete(k)
    \/ \E k \in CowKeys : DeletePrefix(k, EmptyCounter)
    \/ \E k \in CowKeys : Iter(k)
    \/ \E i \in 1..Len(iters) : steps < MaxSteps /\ NextEntry(i)
    \/ \E i \in 1..Len(iters) : DeleteIter(i)
    \/ NewGeneration
    \/ PopGeneration
    \/ \E root \in 0..MaxGeneration : Normalize(root)
    \/ \E h \in handed.ids : WithEntry(h)
    \/ \E h \in handed.ids, v \in Values : GetMutEntry(h, v)
    \/ \E h \in handed.ids, v \in Values : SetEntry(h, v)

SpecArena == EntryInit /\ [][ArenaNext]_vars

(***************************************************************************)
(* Tries built from the empty trie with the keys of the bounds and the     *)
(* keys [1,2], [1,2,3], [1,9].                                             *)
(***************************************************************************)
ScenarioKeys == {<<1, 2>>, <<1, 2, 3>>, <<1, 9>>}

BranchKeys == Keys \cup ScenarioKeys

BranchNext ==
    \/ \E k \in BranchKeys, v \in Values : Insert(k, v)
    \/ \E k \in BranchKeys : Delete(k)
    \/ \E k \in BranchKeys : DeletePrefix(k, EmptyCounter)

SpecBranch == BuildInit /\ [][BranchNext]_vars

(***************************************************************************)
(* A caller that keeps the entry ids insert, get_entry and delete return,  *)
(* on a trie in its first generation or in a second one just started.      *)
(***************************************************************************)
InsertInit ==
    /\ store = <<>>
    /\ \E S \in InitKeySets, fresh \in BOOLEAN :
          LET Started(w) == IF fresh THEN new_generation(w) ELSE w
              Made(t, lnk) ==
                  /\ trie = TrieOf(Started(World(t, lnk)))
                  /\ links = lnk
                  /\ snaps = IF fresh
                             THEN <<[root |-> CurrentRoot(t), content |-> Content(t)]>>
                             ELSE <<>>
              Thawed(f) ==
                  /\ Made(make_mutable(f.links, f.root.data, 0), f.links)
                  /\ frozen = Tree(TRUE, f.root)
          IN  IF S = {}
              THEN Made(EmptyTrie, <<>>) /\ frozen = NoTree
              ELSE Thawed(FrozenTree(S))
    /\ iters = <<>>
    /\ last = Call("new", <<>>, <<>>, "ok", None, None)
    /\ prev = trie
    /\ steps = 0
    /\ cref = NoCell
    /\ handed = Kept({}, FALSE)
    /\ threads = <<>>

InsertNext ==
    \/ \E k \in Keys, v \in Values : Insert(k, v)
    \/ \E k \in Keys : GetEntry(k)
    \/ \E k \in Keys : Delete(k)
    \/ NewGeneration
    \/ PopGeneration

SpecInsert == InsertInit /\ [][InsertNext]_vars

(***************************************************************************)
(* The cell over a backing store whose store_raw may answer                *)
(* Err(WriteError).                                                        *)
(***************************************************************************)
\* a store_and_cache that swaps the cell for the Disk placeholder before it
\* calls store_raw
store_and_cache_swapping_first(self, backing_store, buf, fails) ==
    IF self.tag = "Memory" /\ fails
    THEN [ok |-> FALSE, data |-> Disk(Len(backing_store)), store |-> backing_store,
          buf |-> buf, stores |-> 1]
    ELSE [ok |-> TRUE, data |-> CellStoreAndCache(self, backing_store, buf).data,
          store |-> CellStoreAndCache(self, backing_store, buf).store,
          buf |-> CellStoreAndCache(self, backing_store, buf).buf,
          stores |-> CellStoreAndCache(self, backing_store, buf).stores]

\* CachedRef::store_and_cache over a backing store whose next store_raw
\* answers Err(WriteError) when fails holds: [ok, data, store, buf, stores].
\* The ? on store_raw returns before the cell or buf is touched.
CellStoreAndCacheOn(self, backing_store, buf, fails) ==
    IF self.tag = "Memory" /\ fails
    THEN [ok |-> FALSE, data |-> self, store |-> backing_store, buf |-> buf,
          stores |-> 1]
    ELSE LET Ok(r) == [ok |-> TRUE, data |-> r.data, store |-> r.store,
                       buf |-> r.buf, stores |-> r.stores]
         IN  Ok(CellStoreAndCache(self, backing_store, buf))

\* the bytes already in the output buffer when store_and_cache is called
Written == <<7>>

\* store_and_cache with a backing store that fails or not
StoreAndCacheOn(fails) ==
    /\ steps < MaxCellSteps
    /\ LET Returned(r) ==
               /\ CellDone(Call("store_and_cache", <<>>, r.buf,
                                IF r.ok THEN "ok" ELSE "err", None, None),
                           TRUE, r.data, 0, r.stores)
               /\ store' = r.store
       IN  Returned(CellStoreAndCacheOn(cref.data, store, Written, fails))

WriteNext ==
    \/ Get
    \/ LoadAndCache
    \/ \E fails \in BOOLEAN : StoreAndCacheOn(fails)

SpecWrite == CellInit /\ [][WriteNext]_vars

(***************************************************************************)
(* Threads on one persistent tree.  Every thread has its own handle of the *)
(* root and shares the links below it; a link is an Arc<RwLock<..>>.  A   *)
(* thread runs one of store_update, Node::cache, Node::lookup, or the      *)
(* thawing walk of a MutableTrie of its own (make_owned on the way down to *)
(* a key, then get_mut on its value).  A step is the taking of one guard,  *)
(* or the code that runs while the guards are held together with their     *)
(* drop.                                                                   *)
(***************************************************************************)
MaxThreads == 3

\* the trees the threads share
SharedKeySets == {{<<>>, <<1>>, <<1, 1>>}, {<<1>>, <<2>>}}

\* the keys lookup and the thawing walk are called with, the same key in
\* every thread
SharedKeys == {<<1>>, <<1, 1>>}

Operations == {"store_update", "cache", "lookup", "thaw"}

OpRank(op) ==
    IF op = "store_update" THEN 1 ELSE IF op = "cache" THEN 2
    ELSE IF op = "lookup" THEN 3 ELSE 4

\* what the threads run, one list for every choice of operations: which
\* thread runs which makes no difference
OperationLists ==
    {o \in [1..MaxThreads -> Operations] :
        \A t \in 1..(MaxThreads - 1) : OpRank(o[t]) <= OpRank(o[t + 1])}

\* a guard a thread holds or waits for
Guard(link, mode) == [link |-> link, mode |-> mode]

\* Link::borrow_mut for store_update and cache, Link::borrow for the readers
Mode(op) == IF op \in {"store_update", "cache"} THEN "write" ELSE "read"

NoEntry == [link |-> None, children_processed |-> FALSE]

\* a guard that is never dropped
release_none(holds, link) == holds

\* the drop of the guard of link at the end of its scope
Release(holds, link) == SelectSeq(holds, LAMBDA h : h.link # link)

\* for c in children.iter() { stack.push(c.1.clone()) }
PushLinks(stack, children) ==
    stack \o [i \in 1..Len(children) |->
                 [link |-> children[i].link, children_processed |-> FALSE]]

\* the child of children with the key byte key_step, as a sequence of at
\* most one element
ChildAt(children, key_step) ==
    SelectSeq(children, LAMBDA c : c.key = key_step)

\* the thread of lookup or of the thawing walk at the top of its loop, with
\* the stem, the children and the value slot of the node it is at
Walk(th) ==
    LET f == follow_stem(th.key, th.path)
        done == [th EXCEPT !.pc = "done"]
        found == ChildAt(th.children, f.key_step)
    IN  IF f.tag = "StemIsPrefix"
        THEN IF th.op = "lookup"
             THEN IF found = <<>> THEN done
                  ELSE [th EXCEPT !.pc = "node", !.key = f.key_iter,
                                  !.cur = [link |-> found[1].link,
                                           children_processed |-> FALSE]]
             ELSE \* make_owned thaws every child, then the child is searched
                  IF th.children = <<>> THEN done
                  ELSE [th EXCEPT
                          !.pc = "node", !.key = f.key_iter,
                          !.key_step = f.key_step, !.seen = <<>>,
                          !.cur = [link |-> th.children[1].link,
                                   children_processed |-> FALSE],
                          !.stack = Pop(PushChildren(<<>>, th.children))]
        ELSE IF f.tag = "Equal" /\ th.op = "thaw" /\ th.value # None
        THEN \* get_mut reads the borrowed value
             [th EXCEPT !.pc = "value", !.cur = NoEntry, !.vlink = th.value]
        ELSE done

\* the thread after it has dropped the guard of a node: the next entry of
\* its stack, or what follows the loop
Continue(th, lnk) ==
    LET Rooted(n) ==
            [th EXCEPT !.pc = "done", !.ref_stack = n.st.ref_stack,
                       !.panic = th.panic \/ n.st.panic]
        st == [links |-> lnk, store |-> th.out, ref_stack |-> th.ref_stack,
               panic |-> FALSE]
        chosen == SelectSeq(th.seen, LAMBDA c : c.key = th.key_step)
    IN  IF th.stack # <<>>
        THEN [th EXCEPT !.pc = "node", !.cur = LastOf(th.stack),
                        !.stack = Pop(th.stack)]
        ELSE IF th.op = "store_update"
        THEN \* store_node(self, ..)
             IF th.self.data.value # None
             THEN [th EXCEPT !.pc = "value", !.cur = NoEntry,
                             !.vlink = th.self.data.value]
             ELSE Rooted(store_node(st, th.self.data, <<>>))
        ELSE IF th.op = "thaw" /\ chosen # <<>>
        THEN Walk([th EXCEPT !.path = chosen[1].node.path,
                             !.children = chosen[1].node.children,
                             !.value = chosen[1].node.value])
        ELSE [th EXCEPT !.pc = "done"]

\* the thread as it is started on its handle self of the root
Start(op, key, self, backing_store, strict) ==
    LET th == [op |-> op, key |-> key, self |-> self, pc |-> "start",
               cur |-> NoEntry, vlink |-> None, stack |-> <<>>, holds |-> <<>>,
               ref_stack |-> <<>>, out |-> backing_store,
               path |-> self.data.path, children |-> self.data.children,
               value |-> self.data.value, seen |-> <<>>, key_step |-> 0,
               panic |-> FALSE, waited |-> FALSE, strict |-> strict]
    IN  IF op = "store_update"
        THEN Continue([th EXCEPT !.key = <<>>,
                                 !.stack = PushChildren(<<>>, self.data.children)],
                      <<>>)
        ELSE IF op = "cache"
        THEN IF self.data.value # None
             THEN [th EXCEPT !.key = <<>>, !.pc = "value",
                             !.vlink = self.data.value]
             ELSE Continue([th EXCEPT !.key = <<>>,
                                      !.stack = PushLinks(<<>>, self.data.children)],
                           <<>>)
        ELSE Walk(th)

\* the guard the thread is about to take
Wanted(th) ==
    IF th.pc = "node" THEN Guard(th.cur.link, Mode(th.op))
    ELSE Guard(th.vlink, Mode(th.op))

\* RwLock::write returns when no guard of the link is held; RwLock::read
\* when no write guard is held and, under a policy that prefers writers,
\* no thread waits to write
CanAcquire(t, lock) ==
    /\ \A u \in DOMAIN threads :
          \A i \in 1..Len(threads[u].holds) :
              threads[u].holds[i].link = lock.link
                  => (lock.mode = "read" /\ threads[u].holds[i].mode = "read")
    /\ (lock.mode = "read" /\ threads[t].strict)
          => \A u \in DOMAIN threads \ {t} :
                ~(/\ threads[u].pc \in {"node", "value"}
                  /\ Wanted(threads[u]) = Guard(lock.link, "write"))

\* the thread t waits for a guard that it cannot take
Blocked(t) ==
    /\ threads[t].pc \in {"node", "value"}
    /\ ~CanAcquire(t, Wanted(threads[t]))

\* the step of thread t to th; the threads that were waiting are marked
Stepped(t, th) ==
    threads' = [u \in DOMAIN threads |->
                   IF u = t THEN th
                   ELSE IF Blocked(u) THEN [threads[u] EXCEPT !.waited = TRUE]
                   ELSE threads[u]]

\* Link::borrow / Link::borrow_mut
Acquire(t) ==
    /\ threads[t].pc \in {"node", "value"}
    /\ CanAcquire(t, Wanted(threads[t]))
    /\ Stepped(t, [threads[t] EXCEPT
                     !.holds = Append(@, Wanted(threads[t])),
                     !.pc = IF threads[t].pc = "node" THEN "held" ELSE "valueheld"])
    /\ UNCHANGED links

\* store_update_buf with the write guard of the node cur taken, and with
\* that of its value when valued: [th, links]
StoreHeld(th, lnk, valued) ==
    LET link == th.cur.link
        cell == At(lnk, link)
        st == [links |-> lnk, store |-> th.out, ref_stack |-> th.ref_stack,
               panic |-> FALSE]
        dropped == [th EXCEPT !.holds = Release(th.holds, link)]
        Stored(n, r) ==
            LET cached == SetAt(n.st.links, link, Cached(r.key, cell.value))
            IN  [th |-> Continue(
                          [th EXCEPT
                             !.holds = Release(Release(th.holds, th.vlink), link),
                             !.vlink = None,
                             !.out = r.store,
                             !.ref_stack = Append(n.st.ref_stack, r.key),
                             !.panic = th.panic \/ n.st.panic],
                          cached),
                 links |-> cached]
        Wrote(n) == Stored(n, store_raw(n.st.store, n.buf))
    IN  IF cell.tag = "Memory"
        THEN IF th.cur.children_processed
             THEN IF cell.value.data.value # None /\ ~valued
                  THEN [th |-> [th EXCEPT !.pc = "value",
                                          !.vlink = cell.value.data.value],
                        links |-> lnk]
                  ELSE Wrote(store_node(st, cell.value.data, cell.value.hash))
             ELSE [th |-> Continue(
                            [dropped EXCEPT
                               !.stack = PushChildren(
                                   Append(th.stack,
                                          [link |-> link,
                                           children_processed |-> TRUE]),
                                   cell.value.data.children)],
                            lnk),
                   links |-> lnk]
        ELSE [th |-> Continue([dropped EXCEPT
                                 !.ref_stack = Append(th.ref_stack, cell.key)],
                              lnk),
              links |-> lnk]

\* store_node(self, ..) at the end of store_update_buf, with the write guard
\* of the root's value taken: [th, links]
StoreRoot(th, lnk) ==
    LET st == [links |-> lnk, store |-> th.out, ref_stack |-> th.ref_stack,
               panic |-> FALSE]
        Rooted(n) ==
            [th |-> [th EXCEPT !.pc = "done",
                               !.holds = Release(th.holds, th.vlink),
                               !.vlink = None,
                               !.out = n.st.store,
                               !.ref_stack = n.st.ref_stack,
                               !.panic = th.panic \/ n.st.panic],
             links |-> n.st.links]
    IN  Rooted(store_node(st, th.self.data, <<>>))

\* Node::cache with the write guard of the node cur taken: [th, links]
CacheHeld(th, lnk, loader) ==
    LET link == th.cur.link
        Loaded(st) ==
            LET node == At(st.links, link).value.data
            IN  IF st.panic
                THEN [th |-> [th EXCEPT !.pc = "done", !.panic = TRUE,
                                        !.holds = Release(th.holds, link)],
                      links |-> lnk]
                ELSE IF node.value # None
                THEN [th |-> [th EXCEPT !.pc = "value", !.vlink = node.value],
                      links |-> st.links]
                ELSE [th |-> Continue(
                               [th EXCEPT
                                  !.holds = Release(th.holds, link),
                                  !.stack = PushLinks(th.stack, node.children)],
                               st.links),
                      links |-> st.links]
    IN  Loaded(NodeLoadAndCache([links |-> lnk, panic |-> FALSE], link, loader))

\* Node::cache with the write guard of a value taken, that of the root or
\* that of the node cur: [th, links]
CacheValueHeld(th, lnk, loader) ==
    LET children == IF th.cur.link = None THEN th.self.data.children
                    ELSE At(lnk, th.cur.link).value.data.children
        Loaded(st) ==
            [th |-> Continue(
                      [th EXCEPT
                         !.holds = Release(Release(th.holds, th.vlink), th.cur.link),
                         !.vlink = None,
                         !.panic = th.panic \/ st.panic,
                         !.stack = PushLinks(th.stack, children)],
                      st.links),
             links |-> st.links]
    IN  Loaded(ValueLoadAndCache([links |-> lnk, panic |-> FALSE], th.vlink, loader))

\* the closure of use_value in Node::lookup, and CachedRef::thaw, with the
\* read guard of the node cur taken: the node is read, from the loader when
\* the cell is Disk, and the cell is left as it is.  [th, links]
ReadHeld(th, lnk, loader) ==
    LET link == th.cur.link
        cell == At(lnk, link)
        dropped == [th EXCEPT !.holds = Release(th.holds, link)]
        Read(node, lnk1) ==
            IF th.op = "lookup"
            THEN [th |-> Walk([dropped EXCEPT !.path = node.path,
                                              !.children = node.children,
                                              !.value = node.value]),
                  links |-> lnk1]
            ELSE [th |-> Continue(
                           [dropped EXCEPT
                              !.seen = Append(th.seen,
                                  [key |-> th.children[Len(th.seen) + 1].key,
                                   node |-> node])],
                           lnk1),
                  links |-> lnk1]
        Loaded(st) ==
            IF st.panic
            THEN [th |-> [dropped EXCEPT !.pc = "done", !.panic = TRUE],
                  links |-> lnk]
            ELSE Read(At(st.links, link).value.data, SetAt(st.links, link, cell))
    IN  IF cell.tag = "Disk"
        THEN Loaded(NodeLoadAndCache([links |-> lnk, panic |-> FALSE], link, loader))
        ELSE Read(cell.value.data, lnk)

\* get_mut with the read guard of the borrowed value taken: the value is
\* copied and the guard dropped
ReadValueHeld(th, lnk, loader) ==
    [th |-> [th EXCEPT !.pc = "done",
                       !.holds = Release(th.holds, th.vlink),
                       !.vlink = None,
                       !.panic = ~use_value(At(lnk, th.vlink).data, loader).ok],
     links |-> lnk]

\* the code that runs while thread t holds the guard of a node
NodeHeld(t) ==
    /\ threads[t].pc = "held"
    /\ LET Ran(r) == Stepped(t, r.th) /\ links' = r.links
       IN  IF threads[t].op = "store_update"
           THEN Ran(StoreHeld(threads[t], links, FALSE))
           ELSE IF threads[t].op = "cache"
           THEN Ran(CacheHeld(threads[t], links, store))
           ELSE Ran(ReadHeld(threads[t], links, store))

\* the code that runs while thread t holds the guard of a value
ValueHeld(t) ==
    /\ threads[t].pc = "valueheld"
    /\ LET Ran(r) == Stepped(t, r.th) /\ links' = r.links
       IN  IF threads[t].op = "store_update"
           THEN IF threads[t].cur.link = None
                THEN Ran(StoreRoot(threads[t], links))
                ELSE Ran(StoreHeld(threads[t], links, TRUE))
           ELSE IF threads[t].op = "cache"
           THEN Ran(CacheValueHeld(threads[t], links, store))
           ELSE Ran(ReadValueHeld(threads[t], links, store))

\* thread t has not returned and does not wait for a guard it cannot take
Runnable(t) == threads[t].pc # "done" /\ ~Blocked(t)

\* the scheduler runs thread t
Scheduled(t) ==
    /\ Runnable(t)
    /\ last' = Call("step", <<>>, <<>>, "ok", t, None)
    /\ steps' = steps + 1

\* a step of thread t
Step(t) ==
    /\ Scheduled(t)
    /\ \/ Acquire(t)
       \/ NodeHeld(t)
       \/ ValueHeld(t)
    /\ UNCHANGED <<trie, store, frozen, iters, prev, snaps, cref, handed>>

\* The tree as freeze returned it (every cell Memory), or stored and loaded
\* back (the children of the root Disk), and the threads started on it.
SharedInit ==
    /\ \E S \in SharedKeySets, loaded \in BOOLEAN, strict \in BOOLEAN :
          LET Started(lnk, backing_store, root) ==
                  /\ links = lnk
                  /\ store = backing_store
                  /\ frozen = Tree(TRUE, root)
                  /\ \E ops \in OperationLists, key \in SharedKeys :
                        threads = [t \in 1..MaxThreads |->
                                      Start(ops[t], key, root, backing_store,
                                            strict)]
              Loaded(s, l) == Started(l.links, s.store, l.node)
              Stored(s) == Loaded(s, HashedNodeLoad(s.links, s.buf))
              Frozen(f) ==
                  IF loaded THEN Stored(store_update(f.links, <<>>, f.root))
                  ELSE Started(f.links, <<>>, f.root)
          IN  Frozen(FrozenTree(S))
    /\ trie = EmptyTrie
    /\ iters = <<>>
    /\ last = Call("new", <<>>, <<>>, "ok", None, None)
    /\ prev = trie
    /\ snaps = <<>>
    /\ steps = 0
    /\ cref = NoCell
    /\ handed = NotKept

SharedNext == \E t \in 1..MaxThreads : Step(t)

\* Every thread that can run is run in the end.  A step of the scheduler
\* for t is a step of t and is possible exactly when Step(t) is, so this is
\* weak fairness of Step(t).
Fairness == \A t \in 1..MaxThreads : WF_<<last, steps>>(Scheduled(t))

SpecShared == SharedInit /\ [][SharedNext]_vars /\ Fairness

(***************************************************************************)
(* The in-memory backing store: Vec<u8>::store_raw and Loader::load_raw on *)
(* data that store_raw wrote or that is damaged.                           *)
(***************************************************************************)
MaxLoadSteps == 3

\* the data of the records
Records == {<<>>, <<1>>, <<1, 2>>}

\* length prefixes: of records that fit or do not fit, of a length of 2^32,
\* of 2^63, and of lengths within 9 of 2^64
LengthPrefixes ==
    {BigEndian(n, 8) : n \in 0..3}
        \cup {<<0, 0, 0, 1, 0, 0, 0, 0>>, <<128, 0, 0, 0, 0, 0, 0, 0>>}
        \cup {<<255, 255, 255, 255, 255, 255, 255, b>> : b \in {246, 247, 248, 255}}

\* the data the loader is started with: nothing, one record with any of the
\* prefixes, or a prefix cut short
Loaders ==
    {<<>>, <<0, 0, 0>>} \cup {p \o d : p \in LengthPrefixes, d \in Records}

LoadInit ==
    /\ store \in Loaders
    /\ trie = EmptyTrie
    /\ links = <<>>
    /\ frozen = NoTree
    /\ iters = <<>>
    /\ last = Call("new", <<>>, <<>>, "ok", None, None)
    /\ prev = trie
    /\ snaps = <<>>
    /\ steps = 0
    /\ cref = NoCell
    /\ handed = NotKept
    /\ threads = <<>>

\* Vec<u8>::store_raw; the caller keeps the reference with the data
StoreRaw(data) ==
    /\ steps < MaxLoadSteps
    /\ LET Returned(r) ==
               /\ store' = r.store
               /\ last' = Call("store_raw", <<>>, data, "ok", r.key, None)
               /\ snaps' = Append(snaps, [key |-> r.key, data |-> data])
       IN  Returned(store_raw(store, data))
    /\ steps' = steps + 1
    /\ UNCHANGED <<trie, links, frozen, iters, prev, cref, handed, threads>>

\* Loader::load_raw of any reference
LoadRaw(location) ==
    /\ steps < MaxLoadSteps
    /\ LET Returned(r) ==
               last' = Call("load_raw", <<>>, r.data,
                            IF r.panic THEN "panic" ELSE IF r.ok THEN "ok" ELSE r.err,
                            location, None)
       IN  Returned(load_raw(store, location))
    /\ steps' = steps + 1
    /\ UNCHANGED <<trie, links, store, frozen, iters, prev, snaps, cref, handed, threads>>

LoadNext ==
    \/ \E data \in Records : StoreRaw(data)
    \/ \E location \in 0..(Len(store) + 1) : LoadRaw(location)

SpecLoad == LoadInit /\ [][LoadNext]_vars

(***************************************************************************)
(* Properties                                                              *)
(***************************************************************************)
\* C1: insert(k, v) on a trie with no locked node on k's path returns
\* Some((e, _)), and the get_entry(k) that follows returns Some(e), whose
\* value read with with_entry is v.
C1_InsertThenGet ==
    (last.op = "insert" /\ ~LockedOnPath(prev, last.key))
        => /\ last.res = "some"
           /\ EntryOf(trie, last.key) = last.entry
           /\ Lookup(trie, last.key)
                = [some |-> TRUE, value |-> last.value, panic |-> FALSE]

\* an insert with no lock on the key's path has returned
C1_Witness ==
    /\ last.op = "insert"
    /\ ~LockedOnPath(prev, last.key)
    /\ last.res = "some"
    /\ EntryOf(trie, last.key) = last.entry

\* C2: delete(k) of a key that get_entry finds, with no locked node on its
\* path, returns Some(entry) for that entry and the get_entry(k) that follows
\* returns None; delete of a key that get_entry does not find returns None.
C2_DeleteThenGet ==
    last.op = "delete"
        => IF EntryOf(prev, last.key) = None
           THEN last.res = "none"
           ELSE ~LockedOnPath(prev, last.key)
                   => /\ last.res = "some"
                      /\ last.entry = EntryOf(prev, last.key)
                      /\ EntryOf(trie, last.key) = None

\* a key that had a value, in a trie holding another key below it, was deleted
C2_Witness ==
    /\ last.op = "delete"
    /\ last.res = "some"
    /\ Present(prev, last.key)
    /\ ~Present(trie, last.key)
    /\ \E k \in Keys : k # last.key /\ IsPrefix(last.key, k) /\ Present(trie, k)

\* C3: after new_generation, any calls in the new generation and
\* pop_generation, the trie has the current root it had before new_generation
\* and get_entry and with_entry answer for every key what they answered then.
\* This is stated of the pop_generation that was called, and of the
\* pop_generation that could be called in any state of a later generation.
C3_GenerationIsolation ==
    /\ (last.op = "pop_generation" /\ last.res = "some")
          => LET before == snaps[Len(trie.generation_roots)]
             IN  /\ CurrentRoot(trie) = before.root
                 /\ Content(trie) = before.content
    /\ Len(trie.generation_roots) > 1
          => LET before == snaps[Len(trie.generation_roots) - 1]
                 Popped(t) == /\ CurrentRoot(t) = before.root
                              /\ Content(t) = before.content
             IN  Popped(TrieOf(pop_generation(World(trie, links)).w))

\* a generation whose content differed from the previous one was popped
C3_Witness ==
    /\ last.op = "pop_generation"
    /\ last.res = "some"
    /\ Content(prev) # Content(trie)
    /\ Content(trie) = snaps[Len(trie.generation_roots)].content

\* C4: while an iterator returned by iter(p) is not released, insert(k, v)
\* returns None for every key k that has p as a prefix.
C4_InsertRefusedUnderIterator ==
    (last.op = "insert"
       /\ \E i \in OpenIters : IsPrefix(iters[i].prefix, last.key))
        => last.res = "none"

\* an insert under the prefix of an open iterator was refused
C4_Witness ==
    /\ last.op = "insert"
    /\ \E i \in OpenIters : IsPrefix(iters[i].prefix, last.key)
    /\ last.res = "none"

\* C5: when a node on the descent path of p or in the subtree matched by p is
\* locked, delete_prefix(p) returns Ok(false), no entry becomes Deleted, and
\* every key that had a value still has the same value.
C5_DeletePrefixFailsClosed ==
    (last.op = "delete_prefix"
       /\ \E k \in Keys : IsPrefix(last.key, k) /\ LockedOnPath(prev, k))
        => /\ last.res = "false"
           /\ \A e \in 1..Len(prev.entries) :
                 trie.entries[e].tag = "Deleted" => prev.entries[e].tag = "Deleted"
           /\ \A k \in Keys : Present(prev, k) => Lookup(trie, k) = Lookup(prev, k)

\* delete_prefix met a lock and answered Ok(false)
C5_Witness ==
    /\ last.op = "delete_prefix"
    /\ \E k \in Keys : IsPrefix(last.key, k) /\ LockedOnPath(prev, k)
    /\ last.res = "false"

\* C6: when the counter's tick fails during delete_prefix, the call returns
\* the error, and every key that had a value before the call still has a
\* live entry with the same value.
C6_DeletePrefixCancelled ==
    (last.op = "delete_prefix" /\ last.res = "err")
        => /\ \A e \in 1..Len(prev.entries) :
                 trie.entries[e].tag = "Deleted" => prev.entries[e].tag = "Deleted"
           /\ \A k \in Keys : Present(prev, k) => Lookup(trie, k) = Lookup(prev, k)

\* delete_prefix was cancelled by its counter on a trie that held a key
\* under the prefix
C6_Witness ==
    /\ last.op = "delete_prefix"
    /\ last.res = "err"
    /\ \E k \in Keys : IsPrefix(last.key, k) /\ Present(prev, k)

\* C7: after store_update, the root loaded from the returned bytes, with
\* every reference resolved through load_raw, is the stored tree: the same
\* hash, stem and value at every node, and under every child key byte the
\* reference, the hash and the node of that same child.
C7_StoreLoadRoundTrip ==
    (frozen.loaded.some /\ frozen.cached)
        => HashedView(links, frozen.loaded.root) = HashedView(links, frozen.root)

\* a stored tree whose root has two children was loaded back
C7_Witness ==
    /\ frozen.loaded.some
    /\ frozen.cached
    /\ Len(frozen.root.data.children) >= 2

\* C8: get_entry and with_entry on a trie made mutable from the loaded root,
\* whose children are Disk references, answer for every key what they answer
\* on a trie made mutable from the tree held in memory.
C8_LazyThaw ==
    (last.op = "get_entry" /\ frozen.source = "disk")
        => LET Same(reference) ==
                   /\ last.res = IF reference.some THEN "some" ELSE "none"
                   /\ last.value = reference.value
           IN  Same(Lookup(make_mutable(links, frozen.root.data, 0), last.key))

\* get_entry went through a Disk child of the loaded root
C8_Witness ==
    /\ last.op = "get_entry"
    /\ frozen.source = "disk"
    /\ Len(last.key) > Len(frozen.root.data.path)
    /\ IsPrefix(frozen.root.data.path, last.key)
    /\ Len(frozen.root.data.children) >= 1

\* C9: while an iterator returned by iter(p) is not released, delete(k)
\* returns None for every key k that has p as a prefix, and every key under p
\* that get_entry found before the call is still found.
C9_DeleteRefusedUnderIterator ==
    \A i \in OpenIters :
        (last.op = "delete" /\ IsPrefix(iters[i].prefix, last.key))
            => /\ last.res = "none"
               /\ \A k \in Keys :
                     (IsPrefix(iters[i].prefix, k) /\ EntryOf(prev, k) # None)
                         => EntryOf(trie, k) # None

\* a delete under the prefix of an open iterator was refused
C9_Witness ==
    /\ last.op = "delete"
    /\ last.res = "none"
    /\ \E i \in OpenIters :
          IsPrefix(iters[i].prefix, last.key) /\ EntryOf(prev, last.key) # None

\* C10: insert and delete of a key in the subtree of a node are refused as
\* long as an iterator rooted at that node is not released; they succeed on a
\* path whose lock counters are all 0; delete_iter takes one off the counter
\* of the iterator's root and leaves a counter of 0 at 0.
C10_LockRelease ==
    /\ (last.op \in {"insert", "delete"}
          /\ \E i \in OpenIters : IsPrefix(iters[i].it.key, last.key))
            => last.res = "none"
    /\ (last.op = "insert" /\ ~LockedOnPath(prev, last.key))
            => last.res = "some"
    /\ (last.op = "delete" /\ ~LockedOnPath(prev, last.key)
          /\ EntryOf(prev, last.key) # None)
            => last.res = "some"
    /\ (last.op = "delete_iter" /\ last.res = "ok")
            => LET root == iters[last.entry].it.root
                   before == prev.nodes[root + 1].locked
               IN  trie.nodes[root + 1].locked
                     = IF before = 0 THEN 0 ELSE before - 1

\* with two iterators open at one node, an insert in the subtree was refused
C10_Witness ==
    /\ last.op = "insert"
    /\ last.res = "none"
    /\ \E i, j \in 1..Len(iters) :
          /\ iters[i].it.root = iters[j].it.root
          /\ i # j
          /\ iters[i].open
          /\ iters[j].open
          /\ IsPrefix(iters[j].it.key, last.key)

\* the nodes the current root of t reaches, in the order freeze visits them
ReachableNodes(t) ==
    IF CurrentRoot(t) = None THEN <<>>
    ELSE Reachable(World(t, links), <<CurrentRoot(t)>>, <<>>)

C12_PathCompression ==
    LET reach == ReachableNodes(trie)
    IN  \A i \in 1..Len(reach) :
            reach[i] # CurrentRoot(trie)
                => \/ At(trie.nodes, reach[i]).value # None
                   \/ ChildrenLen(At(trie.nodes, reach[i]).children) >= 2

\* a delete took a leaf out and merged its valueless parent with the one
\* child left: two nodes fewer are reachable
C12_Witness ==
    /\ last.op = "delete" /\ last.res = "some"
    /\ Len(ReachableNodes(trie)) + 2 = Len(ReachableNodes(prev))
    /\ Len(ReachableNodes(trie)) >= 2

\* C13: freeze preserves content.  freeze returns None exactly when the
\* current generation has no root, and for every key Node::lookup on the
\* tree returned finds the value v exactly when get_entry on the trie
\* before freeze found an entry with the value v.
C13_FreezePreservesContent ==
    last.op = "freeze"
        => /\ (last.res = "none") <=> (CurrentRoot(prev) = None)
           /\ last.res # "panic"
           /\ last.res = "some"
                 => \A k \in Keys :
                       LET Same(l, g) == l.some = g.some /\ (l.some => l.value = g.value)
                       IN  Same(LookupValue(links, store, frozen.root.data, k),
                                Lookup(prev, k))

\* a trie with a key in it and a key not in it was frozen
C13_Witness ==
    /\ last.op = "freeze" /\ last.res = "some"
    /\ \E k \in Keys : Present(prev, k)
    /\ \E k \in Keys : ~Present(prev, k)
    /\ \E k \in Keys : LookupValue(links, store, frozen.root.data, k).some

\* C14: serialize/deserialize round trip.  deserialize of the bytes
\* serialize wrote for a tree succeeds and returns a tree with the same
\* hash, stem, value and child key bytes at every node, every node under
\* the same parent and key byte.
C14_SerializeRoundTrip ==
    /\ last.op = "serialize" => last.res = "ok"
    /\ last.op = "deserialize"
          => /\ last.res = "ok"
             /\ TreeView(links, store, frozen.restored.root)
                   = TreeView(links, store, RootOf(frozen.imaged))

\* a tree with a node below a child of the root went through serialize and
\* deserialize
C14_Witness ==
    /\ last.op = "deserialize" /\ last.res = "ok"
    /\ LET view == TreeView(links, store, frozen.restored.root)
       IN  \E i \in 1..Len(view.children) :
              /\ view.children[i].child # <<>>
              /\ view.children[i].child[1].children # <<>>

\* a is before b in the lexicographic order of keys
KeyLess(a, b) ==
    \/ Len(a) < Len(b) /\ SubSeq(b, 1, Len(a)) = a
    \/ \E i \in 1..Len(a) :
          /\ i <= Len(b)
          /\ SubSeq(a, 1, i - 1) = SubSeq(b, 1, i - 1)
          /\ a[i] < b[i]

RECURSIVE Ascending(_)
\* the keys of the set S in ascending order
Ascending(S) ==
    IF S = {} THEN <<>>
    ELSE LET k == CHOOSE x \in S : \A y \in S \ {x} : KeyLess(x, y)
         IN  <<k>> \o Ascending(S \ {k})

\* the keys under the prefix p that get_entry finds in t, in ascending order
KeysUnder(t, p) == Ascending({k \in Keys : IsPrefix(p, k) /\ EntryOf(t, k) # None})

\* C15: iteration.  On a trie that is not changed in between, the calls of
\* next on an iterator returned by iter(p) return the entries of the keys
\* with prefix p in ascending key order, each once, and None from then on.
C15_Iteration ==
    \A i \in 1..Len(iters) :
        LET expected == KeysUnder(trie, iters[i].prefix)
            got == iters[i].got
        IN  \A j \in 1..Len(got) :
                got[j] = IF j <= Len(expected) THEN EntryOf(trie, expected[j])
                         ELSE None

\* an iterator over three keys, one of them below another, was read to the
\* end and asked once more
C15_Witness ==
    \E i \in 1..Len(iters) :
        /\ Len(iters[i].got) = 5
        /\ iters[i].got[3] # None
        /\ iters[i].got[4] = None
        /\ iters[i].got[5] = None
        /\ Len(trie.nodes) >= 3

\* C16: caching discipline of a CachedRef cell.  A call leaves the cell as
\* it was, or takes it from Disk to Cached with the same key
\* (load_and_cache) or from Memory to Cached with the same value
\* (store_and_cache, cache_with); on a Cached cell get, use_value,
\* load_and_cache and store_and_cache call neither load_raw nor store_raw.
C16_CachingDiscipline ==
    /\ \/ cref.data = cref.was
       \/ /\ cref.was.tag = "Disk" /\ cref.data.tag = "Cached"
          /\ cref.data.key = cref.was.key
          /\ cref.data.value = load_raw(store, cref.was.key).data
          /\ last.op = "load_and_cache"
       \/ /\ cref.was.tag = "Memory" /\ cref.data.tag = "Cached"
          /\ cref.data.value = cref.was.value
          /\ load_raw(store, cref.data.key).data = cref.was.value
          /\ last.op \in {"store_and_cache", "cache_with"}
    /\ (cref.was.tag = "Cached"
        /\ last.op \in {"get", "use_value", "load_and_cache", "store_and_cache"})
          => cref.loads = 0 /\ cref.stores = 0

\* store_and_cache was called on a cell that an earlier call had cached
C16_Witness ==
    /\ cref.was.tag = "Cached"
    /\ last.op = "store_and_cache"
    /\ steps >= 2

\* C17: no lock counter exceeds 65535, a call of iter lowers none (no
\* wrap-around), and a call of iter that finds the counter of its node at
\* 65535 returns Err(TooManyIterators), does not panic and leaves the trie,
\* the counter included, as it was.
C17_LockSaturation ==
    /\ \A i \in 1..Len(trie.nodes) : trie.nodes[i].locked \in 0..U16Max
    /\ last.op = "iter" =>
          /\ last.res # "panic"
          /\ Len(trie.nodes) >= Len(prev.nodes)
          /\ \A i \in 1..Len(prev.nodes) : trie.nodes[i].locked >= prev.nodes[i].locked
          /\ last.res = "err" => trie = prev

\* iter was refused on a node whose counter is 65535
C17_Witness ==
    /\ last.op = "iter"
    /\ last.res = "err"
    /\ \E i \in 1..Len(trie.nodes) : trie.nodes[i].locked = U16Max

\* C18: there is always at least one generation: generation_roots is never
\* empty, and insert never fails its expectation that a generation exists.
C18_AtLeastOneGeneration ==
    /\ Len(trie.generation_roots) >= 1
    /\ ~(last.op = "insert" /\ last.res = "panic" /\ Len(prev.generation_roots) = 0)

\* pop_generation returned Some and generations are left
C18_Witness ==
    /\ last.op = "pop_generation"
    /\ last.res = "some"
    /\ Len(trie.generation_roots) >= 1

\* C19: normalize(g) leaves the trie that repeated pop_generation leaves
\* once generation g is the latest: where generation g + 1 existed,
\* generation_roots has length g + 1 and the four tables have the lengths
\* of the checkpoint of generation g + 1; where g is the latest generation
\* or does not exist, the trie is unchanged.  This holds for the call made
\* and for every call that could be made in the state.
C19_NormalizeIsRepeatedPop ==
    /\ \A root \in 0..MaxGeneration :
          normalize(World(trie, links), root) = PopUntil(World(trie, links), root)
    /\ last.op = "normalize" =>
          /\ last.res = "ok"
          /\ trie = TrieOf(PopUntil(World(prev, links), last.entry))
          /\ IF last.entry + 1 < Len(prev.generation_roots)
             THEN LET cp == prev.generation_roots[last.entry + 2].cp
                  IN  /\ Len(trie.generation_roots) = last.entry + 1
                      /\ trie.generation_roots
                            = SubSeq(prev.generation_roots, 1, last.entry + 1)
                      /\ Len(trie.nodes) = cp.num_nodes
                      /\ Len(trie.values) = cp.num_values
                      /\ Len(trie.borrowed_values) = cp.num_borrowed_nodes
                      /\ Len(trie.entries) = cp.num_entries
             ELSE trie = prev

\* normalize dropped two generations at once
C19_Witness ==
    /\ last.op = "normalize"
    /\ Len(prev.generation_roots) = Len(trie.generation_roots) + 2
    /\ Len(prev.nodes) > Len(trie.nodes)

\* the key-to-value map of the tree in frozen, by Node::lookup
SourceMap ==
    [k \in Keys |-> LookupValue(links, store, frozen.root.data, k)]

\* what a second trie made mutable from the tree in frozen, and not written
\* to, finds for every key
OtherContent == Content(make_mutable(links, frozen.root.data, 0))

\* the persistent trees a trie is made mutable from, each with its keys
Sources ==
    {[root |-> FrozenTree(S).root, keys |-> S] : S \in InitKeySets \ {{}}}

\* C20: whatever was called on a trie made mutable from a tree, the tree
\* maps the keys it was frozen with to the values it was frozen with and
\* no other key, and a second trie made mutable from the same tree finds
\* exactly that.
C20_CopyOnWrite ==
    /\ \E s \in Sources : s.root = frozen.root
    /\ \A s \in Sources :
          s.root = frozen.root =>
             \A k \in Keys :
                /\ SourceMap[k].some = (k \in s.keys)
                /\ SourceMap[k].value = IF k \in s.keys THEN Initial \o k ELSE <<>>
                /\ OtherContent[k].has = (k \in s.keys)
                /\ OtherContent[k].val = IF k \in s.keys THEN Initial \o k ELSE <<>>

\* a value the tree holds was overwritten in the trie through get_mut or
\* set, and the trie and the tree now differ on the key
C20_Witness ==
    /\ last.op \in {"get_mut", "set"}
    /\ last.res = "some"
    /\ SourceMap[last.key].some
    /\ Lookup(trie, last.key).value = last.value
    /\ SourceMap[last.key].value # last.value

\* with_entry, get_mut and set all return None for the entry id e
Invalid(e) ==
    LET w == World(trie, links)
    IN  /\ e < Len(trie.entries)
        /\ ~with_entry(w, e, store).some
        /\ get_mut(w, e, store).ref = None /\ ~get_mut(w, e, store).w.panic
        /\ set(w, e, <<1>>).ref = None /\ ~set(w, e, <<1>>).w.panic

\* C21: entry invalidation.  An entry id that delete returned, or that was
\* returned in the current generation for a key under a prefix for which
\* delete_prefix then returned Ok(true), is refused by get_mut, set and
\* with_entry (they return None) in every later state of that generation.
C21_EntryInvalidation ==
    \A h \in handed.ids :
        (h.dead /\ h.gen = Len(trie.generation_roots)) => Invalid(h.e)

\* delete_prefix returned Ok(true) and the caller keeps an entry id for a
\* key under the prefix, which is now refused
C21_Witness ==
    /\ last.op = "delete_prefix" /\ last.res = "true"
    /\ \E h \in handed.ids :
          /\ h.dead /\ h.gen = Len(trie.generation_roots)
          /\ IsPrefix(last.key, h.key) /\ Len(h.key) > Len(last.key)
          /\ Invalid(h.e)

\* C22: with no iterator open and a counter that never fails,
\* delete_prefix(p) returns Ok(true) exactly when get_entry found a key with
\* the prefix p before the call, Ok(false) otherwise, and after the call
\* get_entry finds no key with the prefix p.
C22_DeletePrefixResult ==
    (last.op = "delete_prefix" /\ last.entry = EmptyCounter /\ OpenIters = {})
        => /\ last.res = IF \E k \in Keys : IsPrefix(last.key, k) /\ EntryOf(prev, k) # None
                         THEN "true" ELSE "false"
           /\ \A k \in Keys : IsPrefix(last.key, k) => EntryOf(trie, k) = None

\* delete_prefix removed two keys under a prefix and left a key outside it
C22_Witness ==
    /\ last.op = "delete_prefix" /\ last.entry = EmptyCounter /\ OpenIters = {}
    /\ last.res = "true"
    /\ Cardinality({k \in Keys : IsPrefix(last.key, k) /\ EntryOf(prev, k) # None}) >= 2
    /\ \E k \in Keys : ~IsPrefix(last.key, k) /\ EntryOf(trie, k) # None

\* every node of the world w reachable from its current root, the root
\* apart, has a value or at least two children
Compressed(w) ==
    LET reach == IF CurrentRoot(w) = None THEN <<>>
                 ELSE Reachable(w, <<CurrentRoot(w)>>, <<>>)
    IN  \A i \in 1..Len(reach) :
            reach[i] # CurrentRoot(w)
                => \/ At(w.nodes, reach[i]).value # None
                   \/ ChildrenLen(At(w.nodes, reach[i]).children) >= 2

\* C23: one-level collapse suffices.  In a trie built from the empty trie,
\* whatever prefix delete_prefix is called with, the trie it leaves has no
\* node other than the root that lacks a value and has fewer than two
\* children: merging the parent of the removed subtree with its single
\* remaining child is all the restructuring that is needed.
C23_OneLevelCollapse ==
    \A p \in Keys :
        LET After(r) == r.w.panic \/ Compressed(r.w)
        IN  After(delete_prefix(World(trie, links), store, p, EmptyCounter))

\* a delete_prefix removed one key below a valueless node with two children
\* and merged that node with the child left
C23_Witness ==
    /\ last.op = "delete_prefix" /\ last.res = "true"
    /\ Cardinality({k \in Keys : EntryOf(prev, k) # None}) =
          Cardinality({k \in Keys : EntryOf(trie, k) # None}) + 1
    /\ Len(ReachableNodes(trie)) + 2 = Len(ReachableNodes(prev))
    /\ Len(ReachableNodes(trie)) >= 2

\* C24: an iterator's lock lasts until delete_iter.  In every state in
\* which an iterator returned by iter(p) has not been passed to delete_iter,
\* new_generation called since or not, an insert or delete of a key under p
\* returns None and the keys under p keep their entries.
C24_LockLastsUntilDeleteIter ==
    \A i \in OpenIters :
        (last.op \in {"insert", "delete"} /\ IsPrefix(iters[i].prefix, last.key))
            => /\ last.res = "none"
               /\ \A k \in Keys :
                     IsPrefix(iters[i].prefix, k) => EntryOf(trie, k) = EntryOf(prev, k)

\* new_generation was called while an iterator was open, and then a key
\* under the iterator's prefix that was in the trie was asked to be deleted
C24_Witness ==
    /\ last.op = "delete"
    /\ EntryOf(prev, last.key) # None
    /\ \E i \in OpenIters :
          /\ IsPrefix(iters[i].prefix, last.key)
          /\ iters[i].gen < Len(prev.generation_roots)

\* C25: frame of mutations.  insert(k, v) and delete(k) leave every key
\* other than k as it was, found or not and with the same value, and
\* delete_prefix(p) leaves every key that does not have the prefix p as it
\* was, whether or not the call splits a stem or merges a node with its
\* child.
C25_MutationFrame ==
    /\ last.op \in {"insert", "delete"}
          => \A k \in Keys \ {last.key} : Lookup(trie, k) = Lookup(prev, k)
    /\ last.op = "delete_prefix"
          => \A k \in Keys :
                ~IsPrefix(last.key, k) => Lookup(trie, k) = Lookup(prev, k)

\* an insert split a stem, or a delete merged a node with its child, with
\* another key in the trie
C25_Witness ==
    /\ last.res = "some"
    /\ \E k \in Keys \ {last.key} : Present(prev, k)
    /\ \/ /\ last.op = "insert"
          /\ Len(ReachableNodes(trie)) = Len(ReachableNodes(prev)) + 2
       \/ /\ last.op = "delete"
          /\ Len(ReachableNodes(trie)) + 2 = Len(ReachableNodes(prev))

C27_ValueCopyOnWrite ==
    LET Held_by(t, before) ==
            \A k \in Keys :
                /\ Lookup(t, k).some = before.content[k].has
                /\ Lookup(t, k).value = before.content[k].val
    IN  /\ (last.op = "pop_generation" /\ last.res = "some")
              => Held_by(trie, snaps[Len(trie.generation_roots)])
        /\ Len(trie.generation_roots) > 1
              => Held_by(TrieOf(pop_generation(World(trie, links)).w),
                         snaps[Len(trie.generation_roots) - 1])

\* in a second generation a value was written through get_mut or set and
\* get_entry finds the new value, where the first generation holds a value
\* that insert wrote
C27_Witness ==
    /\ last.op \in {"get_mut", "set"} /\ last.res = "some"
    /\ Len(trie.generation_roots) = 2
    /\ Lookup(trie, last.key).value = last.value
    /\ snaps[1].content[last.key].val \in Values

RECURSIVE DanglingChild(_, _, _)
\* whether a node index at or beyond the end of nodes is met when walking
\* the owned children from the indices of stack
DanglingChild(nodes, stack, seen) ==
    IF stack = <<>> THEN FALSE
    ELSE LET idx == LastOf(stack)
         IN  IF idx < 0 \/ idx >= Len(nodes) THEN TRUE
             ELSE IF idx \in seen THEN DanglingChild(nodes, Pop(stack), seen)
             ELSE LET children == At(nodes, idx).children
                  IN  DanglingChild(nodes,
                          Pop(stack)
                            \o (IF children.tag = "Owned"
                                THEN [i \in 1..Len(children.value) |->
                                         children.value[i].index]
                                ELSE <<>>),
                          seen \cup {idx})

\* an entry that refers to a slot beyond the end of its table
DanglingEntry(t, e) ==
    \/ e.tag = "Mutable" /\ e.entry_idx >= Len(t.values)
    \/ e.tag = "ReadOnly" /\ e.borrowed /\ e.entry_idx >= Len(t.borrowed_values)
    \/ e.tag = "ReadOnly" /\ ~e.borrowed /\ e.entry_idx >= Len(t.values)

\* no node index met from a generation root and no entry is out of bounds
WellFormedArena(t) ==
    /\ \A g \in 1..Len(t.generation_roots) :
          t.generation_roots[g].root # None
              => ~DanglingChild(t.nodes, <<t.generation_roots[g].root>>, {})
    /\ \A e \in 1..Len(t.entries) : ~DanglingEntry(t, t.entries[e])

\* C28: arena well-formedness.  In every state, whatever calls led to it
\* (calls with entry ids and iterators of an older generation included),
\* and in the state a pop_generation or normalize called next leaves, every
\* child index met from a remaining generation root is below the length of
\* nodes and every remaining entry refers to a slot that exists.
C28_ArenaWellFormed ==
    /\ WellFormedArena(trie)
    /\ Len(trie.generation_roots) > 1
          => WellFormedArena(TrieOf(pop_generation(World(trie, links)).w))
    /\ \A root \in 0..MaxGeneration :
          WellFormedArena(TrieOf(normalize(World(trie, links), root)))

\* a generation in which nodes, entries and values were added was popped
C28_Witness ==
    /\ last.op \in {"pop_generation", "normalize"}
    /\ Len(trie.generation_roots) < Len(prev.generation_roots)
    /\ Len(trie.nodes) < Len(prev.nodes)
    /\ Len(trie.entries) < Len(prev.entries)
    /\ Len(trie.values) < Len(prev.values)

\* the owned child list of every node of the arena is strictly ascending by
\* key byte
SortedChildren(t) ==
    \A n \in 1..Len(t.nodes) :
        LET c == t.nodes[n].children
        IN  c.tag = "Owned"
                => \A i \in 1..(Len(c.value) - 1) : c.value[i].key < c.value[i + 1].key

\* the node at index n, pushed by the insert of last, is a branch made by
\* Diff: no value, two children in the order of their key bytes, one the
\* node whose stem was split (its old stem is the branch's stem, the key
\* byte and the stem it keeps) and one the new leaf with the new entry, and
\* the inserted key ends with the branch's stem, the leaf's key byte and
\* the leaf's stem
DiffBranch(n) ==
    LET b == trie.nodes[n]
        c == b.children.value
        Split(old, new) ==
            LET old_node == trie.nodes[old.index + 1]
                leaf == trie.nodes[new.index + 1]
                tail == b.path \o <<new.key>> \o leaf.path
            IN  /\ old.index < Len(prev.nodes)
                /\ new.index >= Len(prev.nodes)
                /\ prev.nodes[old.index + 1].path
                      = StemExtend(b.path, old.key, old_node.path)
                /\ leaf.value = last.entry
                /\ ChildrenLen(leaf.children) = 0
                /\ Len(tail) <= Len(last.key)
                /\ SubSeq(last.key, Len(last.key) - Len(tail) + 1, Len(last.key)) = tail
    IN  /\ b.children.tag = "Owned"
        /\ Len(c) = 2
        /\ c[1].key < c[2].key
        /\ Split(c[1], c[2]) \/ Split(c[2], c[1])

\* C29: children stay sorted.  The owned child list of every node is
\* strictly ascending by key byte; a node without a value that insert
\* pushes is the branch of a stem that parted from the key, with exactly
\* two children in key order, the old continuation and the new one; and the
\* trie holding exactly [1,2], [1,2,3] and [1,9] is one branch with the
\* stem [1] and the children 2 and 9, the node under 2 with a value and
\* one child 3.
C29_ChildrenSorted ==
    /\ SortedChildren(trie)
    /\ (last.op = "insert" /\ last.res = "some")
          => \A n \in (Len(prev.nodes) + 1)..Len(trie.nodes) :
                trie.nodes[n].value = None => DiffBranch(n)
    /\ {k \in BranchKeys : EntryOf(trie, k) # None} = ScenarioKeys
          => LET reach == ReachableNodes(trie)
                 root == At(trie.nodes, CurrentRoot(trie))
                 c == root.children.value
                 two == At(trie.nodes, c[1].index)
                 nine == At(trie.nodes, c[2].index)
             IN  /\ Cardinality({i \in 1..Len(reach) :
                                    At(trie.nodes, reach[i]).value = None}) = 1
                 /\ root.value = None
                 /\ root.path = <<1>>
                 /\ Len(c) = 2 /\ c[1].key = 2 /\ c[2].key = 9
                 /\ two.value # None /\ two.path = <<>>
                 /\ Len(two.children.value) = 1 /\ two.children.value[1].key = 3
                 /\ nine.value # None /\ nine.path = <<>>
                 /\ ChildrenLen(nine.children) = 0

\* [1,9] was inserted last of the three keys and parted from the stem [1,2]:
\* two nodes were pushed
C29_Witness ==
    /\ last.op = "insert" /\ last.key = <<1, 9>> /\ last.res = "some"
    /\ {k \in BranchKeys : EntryOf(trie, k) # None} = ScenarioKeys
    /\ Len(trie.nodes) = Len(prev.nodes) + 2
    /\ \E n \in (Len(prev.nodes) + 1)..Len(trie.nodes) : trie.nodes[n].value = None

\* C30: insert result.  An insert that is not refused returns (new,
\* Some(old)) exactly when get_entry found the key before the call, old being
\* the entry get_entry returned, and (new, None) otherwise; new is an entry
\* id that no insert, get_entry or delete returned before; and with_entry of
\* old still answers the value the key had before the call.
C30_InsertResult ==
    /\ (last.op = "insert" /\ last.res = "some")
          => /\ last.old = EntryOf(prev, last.key)
             /\ last.entry # None
             /\ last.old # None
                   => LET Same(a, b) == a.some /\ a.some = b.some /\ a.value = b.value
                      IN  Same(with_entry(World(trie, links), last.old, store),
                               Lookup(prev, last.key))
    /\ ~handed.reused

\* an insert replaced the value of a key and returned the entry the key had
C30_Witness ==
    /\ last.op = "insert" /\ last.res = "some"
    /\ last.old # None
    /\ last.old = EntryOf(prev, last.key)
    /\ last.entry # last.old
    /\ Lookup(trie, last.key).value = last.value

RECURSIVE MemoryUnder(_, _)
\* whether the value cell of the node, the cell of one of its children or a
\* cell below a child that is held in memory is in the Memory state
MemoryUnder(lnk, node) ==
    \/ node.value # None /\ At(lnk, node.value).data.tag = "Memory"
    \/ \E i \in 1..Len(node.children) :
          LET c == At(lnk, node.children[i].link)
          IN  \/ c.tag = "Memory"
              \/ c.tag = "Cached" /\ MemoryUnder(lnk, c.value.data)

\* C31: store_update is complete and idempotent.  Once store_update has
\* returned, no value cell and no child link reachable from the root is in
\* the Memory state, and a further store_update of the tree makes no
\* store_raw call (the backing store is unchanged) and returns the bytes
\* the first one returned.
C31_StoreUpdateIdempotent ==
    frozen.stored
        => /\ last.op = "store_update" => last.res = "ok"
           /\ ~MemoryUnder(links, frozen.root.data)
           /\ LET Again(r) ==
                      /\ ~r.panic
                      /\ r.store = store
                      /\ r.buf = frozen.bytes
              IN  Again(store_update(links, store, frozen.root))

\* store_update was called a second time, after the stored root was loaded
\* back, on a tree whose root has two children
C31_Witness ==
    /\ last.op = "store_update" /\ last.res = "ok"
    /\ frozen.loaded.some
    /\ Len(frozen.root.data.children) >= 2
    /\ store # <<>>

\* C32: store failure leaves the cell intact.  When store_raw fails during
\* store_and_cache on a Memory cell, the error is returned, the cell is
\* still Memory with the same value, and the output buffer holds what it
\* held before the call; on a cell that is not Memory store_raw is not
\* called and the failing store does not matter.
C32_StoreFailureLeavesCell ==
    last.op = "store_and_cache"
        => /\ last.res = "err"
                 => /\ cref.was.tag = "Memory"
                    /\ cref.data = cref.was
                    /\ last.value = Written
           /\ cref.was.tag # "Memory"
                 => /\ last.res = "ok"
                    /\ cref.stores = 0
                    /\ last.value = Written \o ReferenceStore(cref.was.key)

\* store_raw failed on a Memory cell
C32_Witness ==
    /\ last.op = "store_and_cache" /\ last.res = "err"
    /\ cref.was.tag = "Memory"
    /\ cref.stores = 1

\* the lock counter the node n had before the last call; a node the call
\* pushed had none
LockedBefore(n) == IF n <= Len(prev.nodes) THEN prev.nodes[n].locked ELSE 0

\* no lock counter other than that of the nodes in S differs from what it
\* was before the last call
LocksKeptOutside(S) ==
    /\ Len(trie.nodes) >= Len(prev.nodes)
    /\ \A n \in (1..Len(trie.nodes)) \ S : trie.nodes[n].locked = LockedBefore(n)

\* C33: iter(p) returns Ok(Some(iterator)) exactly when at least one key
\* with the prefix p is in the current generation; it then adds one to the
\* lock counter of exactly one node, the iterator's root, whose key has the
\* prefix p and is a prefix of every key under p; when it returns Ok(None)
\* no lock counter changes.
C33_IterLocksSubtree ==
    last.op = "iter"
        => /\ last.res = "some" <=> \E k \in Keys : IsPrefix(last.key, k) /\ Present(prev, k)
           /\ last.res = "some"
                 => LET it == iters[Len(iters)].it
                    IN  /\ it.root + 1 \in 1..Len(trie.nodes)
                        /\ trie.nodes[it.root + 1].locked = LockedBefore(it.root + 1) + 1
                        /\ LocksKeptOutside({it.root + 1})
                        /\ IsPrefix(last.key, it.key)
                        /\ \A k \in Keys :
                              (IsPrefix(last.key, k) /\ Present(prev, k))
                                  => IsPrefix(it.key, k)
           /\ last.res = "none" => LocksKeptOutside({})

\* iter locked a node below the root that it thawed on the way down
C33_Witness ==
    /\ last.op = "iter" /\ last.res = "some"
    /\ iters[Len(iters)].it.root + 1 > Len(prev.nodes)
    /\ \E k \in Keys : ~IsPrefix(last.key, k) /\ Present(prev, k)

\* the key iter(p) gave the iterator i when it was opened: p followed by
\* the rest of the stem of the iterator's root
RootKey(i) == iter(World(trie, links), store, iters[i].prefix).it.key

\* C34: the iterator's key buffer.  Whenever next returns Some(e), get_key
\* is the full key of the entry e, so get_entry on that key returns e; and
\* in every state the buffer has the iterator's root key as a prefix, which
\* in turn has the prefix the iterator was opened with.
C34_IteratorKey ==
    /\ \A i \in 1..Len(iters) :
          /\ IsPrefix(iters[i].prefix, RootKey(i))
          /\ IsPrefix(RootKey(i), iters[i].it.key)
    /\ (last.op = "next" /\ last.res = "some")
          => /\ iters[last.old].it.key \in Keys
             /\ EntryOf(trie, iters[last.old].it.key) = last.entry

\* next returned an entry two levels below the iterator's root after it
\* had come back up from another branch
C34_Witness ==
    /\ last.op = "next" /\ last.res = "some"
    /\ Len(iters[last.old].it.key) > Len(RootKey(last.old))
    /\ Len(iters[last.old].got) >= 3
    /\ Len(iters[last.old].it.stack) >= 1

\* the edges from a reachable node with owned children to the node n
ParentEdges(t, reached, n) ==
    LET ChildrenOf(m) == IF At(t.nodes, m).children.tag = "Owned"
                    THEN At(t.nodes, m).children.value ELSE <<>>
    IN  UNION {{<<m, i>> : i \in {j \in 1..Len(ChildrenOf(m)) : ChildrenOf(m)[j].index = n}} :
                 m \in reached}

\* the nodes the current root reaches form a tree
IsTree(t) ==
    LET reachable == ReachableNodes(t)
        reached == {reachable[i] : i \in 1..Len(reachable)}
    IN  /\ \A n \in reached : n < Len(t.nodes)
        /\ \A n \in reached :
              Cardinality(ParentEdges(t, reached, n))
                  = IF n = CurrentRoot(t) THEN 0 ELSE 1

\* C35: freeze never hits its invariant checks.  In every state the public
\* operations reach, the nodes reachable from the current root form a tree
\* (the root has no parent and every other reachable node exactly one), and
\* the freeze that could be called finds every child in the map of frozen
\* nodes and is left with the root alone: it does not panic.
C35_FreezeInvariant ==
    /\ IsTree(trie)
    /\ ~freeze(World(trie, links), store).panic

\* a trie of three reachable nodes, children thawed and a node pushed by
\* insert among them
C35_Witness ==
    /\ last.op = "insert" /\ last.res = "some"
    /\ Len(ReachableNodes(trie)) >= 3
    /\ Len(trie.nodes) > Len(prev.nodes)
    /\ frozen.some

\* every thread returned
AllDone == \A t \in DOMAIN threads : threads[t].pc = "done"

\* some thread that has not returned can take a step
NoDeadlock == AllDone \/ \E t \in DOMAIN threads : Runnable(t)

Calls(collector, call, of) ==
    Cardinality({i \in 1..Len(collector) :
                    collector[i].call = call /\ collector[i].of = of})

\* the calls the collector received, as a set
Received(collector) == {collector[i] : i \in 1..Len(collector)}

\* the value of the node is owned by the trie: its entry is Mutable, or
\* ReadOnly and not borrowed
OwnedValue(t, node) ==
    /\ node.value # None
    /\ \/ At(t.entries, node.value).tag = "Mutable"
       \/ /\ At(t.entries, node.value).tag = "ReadOnly"
          /\ ~At(t.entries, node.value).borrowed

\* the value of the node is borrowed from the persistent tree
BorrowedValue(t, node) ==
    /\ node.value # None
    /\ At(t.entries, node.value).tag = "ReadOnly"
    /\ At(t.entries, node.value).borrowed

RECURSIVE ValueLinks(_, _)
\* the value links of the persistent tree below node, as far as it is in
\* memory
ValueLinks(lnk, node) ==
    (IF node.value = None THEN {} ELSE {node.value})
        \cup UNION {IF At(lnk, node.children[i].link).tag = "Disk" THEN {}
                    ELSE ValueLinks(lnk, At(lnk, node.children[i].link).value.data) :
                    i \in 1..Len(node.children)}

\* what the claim says of the freeze that returned or panicked with r, for
\* the nodes reached
Accounted(r, reached) ==
    /\ \A n \in reached :
          LET node == At(trie.nodes, n)
          IN  /\ Calls(r.collector, "add_path", n) = 1
              /\ Calls(r.collector, "add_children", n) = 1
              /\ Collected("add_path", n, Len(node.path)) \in Received(r.collector)
              /\ Collected("add_children", n, ChildrenLen(node.children))
                     \in Received(r.collector)
              /\ OwnedValue(trie, node)
                    => /\ Calls(r.collector, "add_value", node.value) = 1
                       /\ Collected("add_value", node.value,
                                    At(trie.values,
                                       At(trie.entries, node.value).entry_idx))
                              \in Received(r.collector)
              /\ (node.value # None /\ ~OwnedValue(trie, node))
                    => Calls(r.collector, "add_value", node.value) = 0
              /\ BorrowedValue(trie, node)
                    => /\ r.some
                       /\ At(trie.borrowed_values, At(trie.entries, node.value).entry_idx)
                              \in ValueLinks(r.links, r.root.data)
    /\ Len(r.collector)
          = 2 * Cardinality(reached)
              + Cardinality({n \in reached : OwnedValue(trie, At(trie.nodes, n))})
    /\ \A i \in 1..Len(links) : r.links[i] = links[i]

\* C37: collector accounting in freeze.  For the freeze that could be
\* called in any state, add_value is called exactly once for each reachable
\* node whose value is owned by the trie and never for a borrowed value,
\* whose link is the value link of a node of the tree returned, unchanged;
\* add_path and add_children are called exactly once for each reachable
\* node; and the collector is called for nothing else.
C37_CollectorAccounting ==
    LET reachable == ReachableNodes(trie)
    IN  Accounted(freeze(World(trie, links), store),
                  {reachable[i] : i \in 1..Len(reachable)})

\* a trie whose reachable nodes hold a value written in this trie, a value
\* borrowed from the persistent tree and, in a later generation, a value
\* of the generation before
C37_Witness ==
    LET reachable == ReachableNodes(trie)
        reached == {reachable[i] : i \in 1..Len(reachable)}
    IN  /\ \E n \in reached : BorrowedValue(trie, At(trie.nodes, n))
        /\ \E n \in reached :
              /\ OwnedValue(trie, At(trie.nodes, n))
              /\ At(trie.entries, At(trie.nodes, n).value).tag = "ReadOnly"
        /\ ~freeze(World(trie, links), store).panic
        /\ Len(trie.generation_roots) = 2

\* the record at location does not lie within the data: the reference
\* points past the data or to fewer than 8 bytes of it, or the record ends
\* past the data
PastData(loader, location) ==
    \/ location + 8 > Len(loader)
    \/ location + 8 + FromBigEndian(SubSeq(loader, location + 1, location + 8))
          > Len(loader)

\* C38: out-of-bounds load.  load_raw of a reference that points past the
\* data, or whose length prefix makes the record end past the data, the
\* lengths for which position + 8 + length exceeds 64 bits included,
\* returns OutOfBoundsRead; it never panics; and for every reference that
\* store_raw returned it returns the bytes stored.
C38_OutOfBoundsLoad ==
    /\ last.op = "load_raw"
          => /\ last.res # "panic"
             /\ PastData(store, last.entry)
                   => last.res = "OutOfBoundsRead" /\ last.value = <<>>
             /\ ~PastData(store, last.entry) => last.res = "ok"
    /\ \A i \in 1..Len(snaps) :
          /\ load_raw(store, snaps[i].key).ok
          /\ load_raw(store, snaps[i].key).data = snaps[i].data

\* the second of two records stored behind a damaged one was loaded back
C38_Witness ==
    /\ last.op = "load_raw" /\ last.res = "ok"
    /\ Len(snaps) = 2
    /\ last.entry = snaps[2].key
    /\ last.value = snaps[2].data
    /\ last.value # <<>>
    /\ PastData(store, 0)

\* the nodes of the arena whose child list make_owned would thaw, migrate,
\* or leave as it is
ChildrenToOwn(t, how) ==
    {idx \in 0..(Len(t.nodes) - 1) :
        LET node == At(t.nodes, idx)
        IN  /\ node.children.value # <<>>
            /\ how = IF node.children.tag = "Borrowed" THEN "thaw"
                     ELSE IF node.children.generation # node.generation
                     THEN "migrate" ELSE "none"}

\* C39: make_owned thaws at most once per generation.  For every node of
\* the arena, after make_owned(idx) the children of the node are Owned with
\* the generation of the node, and every child node has that generation; a
\* second make_owned(idx) appends no node and no entry, changes nothing
\* else, and returns the same child list.
C39_MakeOwnedOnce ==
    \A idx \in 0..(Len(trie.nodes) - 1) :
        LET node == At(trie.nodes, idx)
            first == make_owned(World(trie, links), idx, store)
            second == make_owned(first.w, idx, store)
            owned == At(first.w.nodes, idx).children
        IN  ~first.w.panic
              => /\ owned.tag = "Owned"
                 /\ owned.generation = node.generation
                 /\ At(first.w.nodes, idx).generation = node.generation
                 /\ first.children = owned.value
                 /\ \A i \in 1..Len(owned.value) :
                       /\ owned.value[i].index < Len(first.w.nodes)
                       /\ At(first.w.nodes, owned.value[i].index).generation
                             = node.generation
                 /\ Len(second.w.nodes) = Len(first.w.nodes)
                 /\ Len(second.w.entries) = Len(first.w.entries)
                 /\ second.w = first.w
                 /\ second.children = first.children
                 /\ second.has_value = first.has_value

\* a second generation in which the arena holds a node whose children would
\* be thawed, one whose children would be migrated, and one whose children
\* are owned already
C39_Witness ==
    /\ Len(trie.generation_roots) >= 2
    /\ ChildrenToOwn(trie, "thaw") # {}
    /\ ChildrenToOwn(trie, "migrate") # {}
    /\ ChildrenToOwn(trie, "none") # {}
    /\ \A idx \in 0..(Len(trie.nodes) - 1) :
          ~make_owned(World(trie, links), idx, store).w.panic

====
